---- MODULE Spec2Model ----
(***************************************************************************)
(* CV Enhancer frontend: the CVPreview rendering component                 *)
(* (frontend/src/components/CVPreview.js) and its helpers.                 *)
(*                                                                         *)
(* Text is modelled as a sequence of one-character strings, so substring   *)
(* search, prefix tests, replacement and case folding are computed, not    *)
(* assumed.  Characters outside ASCII are written as named tokens:         *)
(*   "a_uml" "u_uml" "A_uml" (umlauts), "ndash" (U+2013), "middot"         *)
(*   (U+00B7), "bullet" (U+2022), "mdash" (U+2014), "LF" (newline).        *)
(*                                                                         *)
(* JavaScript values are tagged records [t |-> type, v |-> payload]:       *)
(*   undefined, null, string (character sequence), number, boolean,        *)
(*   array (sequence of values), object (sequence of [k, v] entries in     *)
(*   Object.entries order).                                                *)
(***************************************************************************)
EXTENDS Integers, Sequences, FiniteSets, TLC

VARIABLES
    pc,          \* position of the run: which call has been made
    envUrl,      \* process.env.REACT_APP_API_URL
    API_BASE,    \* module constant computed when CVPreview.js is loaded
    photoArg,    \* argument of the last resolvePhoto call
    photoRes,    \* its result
    rawSkills,   \* data.skills as handed to flattenSkills / getSkillCategories
    skills,      \* result of flattenSkills(rawSkills)
    skillCategories, \* result of getSkillCategories(rawSkills)
    data,        \* the document handed to detectGerman / CVPreview
    isGerman,    \* result of detectGerman(data)
    themeProp,   \* the theme prop of CVPreview
    theme,       \* the local const theme of the last completed render
    output,      \* the tree CVPreview returned
    \* CVEditorPage
    cvData,           \* state cvData: [ref, doc], ref the identity of the object
    cvTitle,          \* state title
    isInitialLoad,    \* state isInitialLoad
    debouncedData,    \* useDebounce(cvData, 1400)
    debouncedTitle,   \* useDebounce(title, 1400)
    autoSaveState,    \* state autoSaveState: idle | saving | saved
    getOne,           \* the cvAPI.getOne request: pending | resolved | rejected
    serverCv,         \* res.data of that request
    initialLoadTimer, \* setTimeout(() => setIsInitialLoad(false), 500)
    dataTimer,        \* the pending timer of useDebounce(cvData, 1400)
    titleTimer,       \* the pending timer of useDebounce(title, 1400)
    idleTimers,       \* number of pending setTimeout(() => setAutoSaveState('idle'), 2500)
    pendingUpdates,   \* cvAPI.update requests not yet answered
    sent,             \* the payloads of the cvAPI.update requests, in order
    edits,            \* number of user edits so far
    \* CVCustomizePage
    persisted,        \* the CV as the server stores it
    cv,               \* state cv: the raw CV as loaded, null before
    customizeCvData,  \* state cvData of the customize page: the live preview
    originalCVData,   \* state originalCVData: backup before enhancement
    loading,          \* state loading
    jobDescription,   \* state jobDescription
    analyzing,        \* state analyzing: the analysis request is in flight
    suggestions,      \* state suggestions: the ids of the suggestions listed
    appliedIds,       \* state appliedIds: indices of the applied suggestions
    applyRequests,    \* the customizeAPI.applySuggestion requests in flight
    refetches,        \* number of cvAPI.getOne requests of handleApplySuggestion in flight
    enhancing,        \* state enhancing: the enhancement request is in flight
    enhancedCV,       \* state enhancedCV: pending enhanced data
    enhanceStatus,    \* state enhanceStatus: success | error | empty
    applying,         \* state applying: the apply-ai-changes request is in flight
    applyPayload      \* the enhanced_cv that request carries

photoVars == <<envUrl, API_BASE, photoArg, photoRes>>
skillVars == <<rawSkills, skills, skillCategories>>
docVars == <<data, isGerman, themeProp, theme, output>>
editorVars ==
    <<cvData, cvTitle, isInitialLoad, debouncedData, debouncedTitle,
      autoSaveState, getOne, serverCv, initialLoadTimer, dataTimer, titleTimer,
      idleTimers, pendingUpdates, sent, edits>>
customizeVars ==
    <<persisted, cv, customizeCvData, originalCVData, loading, jobDescription,
      analyzing, suggestions, appliedIds, applyRequests, refetches, enhancing,
      enhancedCV, enhanceStatus, applying, applyPayload>>
pageVars == <<editorVars, customizeVars>>
vars == <<pc, envUrl, API_BASE, photoArg, photoRes,
          rawSkills, skills, skillCategories, data, isGerman, themeProp,
          theme, output, pageVars>>

(***************************************************************************)
(* JavaScript values                                                       *)
(***************************************************************************)
Undef == [t |-> "undefined"]
Null == [t |-> "null"]
Str(s) == [t |-> "string", v |-> s]
Num(n) == [t |-> "number", v |-> n]
Bool(b) == [t |-> "boolean", v |-> b]
Arr(a) == [t |-> "array", v |-> a]
Obj(o) == [t |-> "object", v |-> o]
KV(k, val) == [k |-> k, v |-> val]

IsStr(x) == x.t = "string"
IsArr(x) == x.t = "array"
IsObj(x) == x.t = "object"
IsNullish(x) == x.t \in {"undefined", "null"}

\* ToBoolean
Truthy(x) ==
    CASE x.t = "undefined" -> FALSE
      [] x.t = "null" -> FALSE
      [] x.t = "string" -> Len(x.v) > 0
      [] x.t = "number" -> x.v # 0
      [] x.t = "boolean" -> x.v
      [] OTHER -> TRUE

\* a || b
Or(a, b) == IF Truthy(a) THEN a ELSE b

HasKey(o, k) == IsObj(o) /\ \E i \in 1..Len(o.v) : o.v[i].k = k

\* o.k on a value that is not undefined/null (on those the access throws):
\* an own property of an object, undefined for anything else.
Get(o, k) ==
    IF HasKey(o, k)
    THEN o.v[CHOOSE i \in 1..Len(o.v) : o.v[i].k = k].v
    ELSE Undef

(***************************************************************************)
(* String primitives                                                       *)
(***************************************************************************)
\* String.prototype.startsWith
StartsWith(s, p) == Len(s) >= Len(p) /\ SubSeq(s, 1, Len(p)) = p

\* the 1-based positions at which p occurs in s
Occurrences(s, p) ==
    {i \in 1..(Len(s) - Len(p) + 1) : SubSeq(s, i, i + Len(p) - 1) = p}

\* String.prototype.includes
Includes(s, p) == Occurrences(s, p) # {}

\* String.prototype.replace with a string pattern: the first occurrence only
ReplaceFirst(s, p, r) ==
    IF Occurrences(s, p) = {} THEN s
    ELSE LET i == CHOOSE j \in Occurrences(s, p) :
                      \A k \in Occurrences(s, p) : j <= k
         IN SubSeq(s, 1, i - 1) \o r \o SubSeq(s, i + Len(p), Len(s))

\* String.prototype.replace(/^\//, ''): one leading slash, if any
StripLeadingSlash(s) ==
    IF Len(s) > 0 /\ s[1] = "/" THEN SubSeq(s, 2, Len(s)) ELSE s

\* String.prototype.substring(0, n)
Substring0(s, n) == IF Len(s) <= n THEN s ELSE SubSeq(s, 1, n)

(***************************************************************************)
(* Literals                                                                *)
(***************************************************************************)
LOCALHOST == <<"h","t","t","p",":","/","/","l","o","c","a","l","h","o","s","t",":","8","0","0","0">>
SLASH_API == <<"/","a","p","i">>
SLASH_UPLOADS == <<"/","u","p","l","o","a","d","s","/">>
UPLOADS == <<"u","p","l","o","a","d","s","/">>

(***************************************************************************)
(* API_BASE and resolvePhoto                                               *)
(***************************************************************************)
ApiBaseNoStrip(url) ==
    IF IsNullish(url) THEN LOCALHOST
    ELSE IF url.v = <<>> THEN LOCALHOST ELSE url.v

\* const API_BASE = process.env.REACT_APP_API_URL?.replace('/api', '')
\*                  || 'http://localhost:8000';
ApiBaseOf(url) ==
    LET replaced == IF IsNullish(url) THEN Undef
                    ELSE Str(ReplaceFirst(url.v, SLASH_API, <<>>))
    IN Or(replaced, Str(LOCALHOST)).v

resolvePhotoKeepSlash(photo, base) ==
    IF ~Truthy(photo) THEN Null
    ELSE IF StartsWith(photo.v, SLASH_UPLOADS) \/ StartsWith(photo.v, UPLOADS)
         THEN Str(base \o <<"/">> \o photo.v)
         ELSE photo

\* resolvePhoto(photo), reading the module constant API_BASE (base).
\* photo is undefined, null or a string here; see resolvePhotoThrows.
resolvePhoto(photo, base) ==
    IF ~Truthy(photo) THEN Null
    ELSE IF StartsWith(photo.v, SLASH_UPLOADS) \/ StartsWith(photo.v, UPLOADS)
         THEN Str(base \o <<"/">> \o StripLeadingSlash(photo.v))
         ELSE photo

\* photo.startsWith on a truthy value that is not a string: TypeError
resolvePhotoThrows(photo) == Truthy(photo) /\ ~IsStr(photo)

(***************************************************************************)
(* Inputs of the photo specification                                       *)
(***************************************************************************)
urlExample == <<"h","t","t","p",":","/","/","a","p","i",".","e","x","a","m","p","l","e",".","c","o","m">>
urlExampleApi == <<"h","t","t","p",":","/","/","a","p","i",".","e","x","a","m","p","l","e",".","c","o","m","/","a","p","i">>
urlLocalApi == <<"h","t","t","p",":","/","/","l","o","c","a","l","h","o","s","t",":","8","0","0","0","/","a","p","i">>
urlHost == <<"h","t","t","p",":","/","/","h",".","i","o">>
urlHostApi == <<"h","t","t","p",":","/","/","h",".","i","o","/","a","p","i">>

EnvUrls ==
    {Undef, Str(<<>>), Str(SLASH_API), Str(urlExample), Str(urlExampleApi),
     Str(urlLocalApi), Str(urlHost), Str(urlHostApi)}

photoSlashUploads == <<"/","u","p","l","o","a","d","s","/","p","h","o","t","o",".","p","n","g">>
photoUploads == <<"u","p","l","o","a","d","s","/","p","h","o","t","o",".","p","n","g">>
photoCdn == <<"h","t","t","p","s",":","/","/","c","d","n",".","e","x","a","m","p","l","e",".","c","o","m","/","x",".","p","n","g">>
photoData == <<"d","a","t","a",":","i","m","a","g","e","/","p","n","g",";","b","a","s","e","6","4",",","A","A">>
photoTwoSlash == <<"/","/","u","p","l","o","a","d","s","/","x",".","p","n","g">>
photoNoSlash == <<"/","u","p","l","o","a","d","s">>
photoInner == <<"x","/","u","p","l","o","a","d","s","/","y",".","p","n","g">>
photoUpload == <<"/","u","p","l","o","a","d","/","x",".","p","n","g">>
photoRel == <<"i","m","g","/","m","e",".","p","n","g">>
photoUpper == <<"/","U","p","l","o","a","d","s","/","p",".","p","n","g">>

PhotoInputs ==
    {Undef, Null, Str(<<>>), Str(photoSlashUploads), Str(photoUploads),
     Str(photoCdn), Str(photoData), Str(photoTwoSlash), Str(photoNoSlash),
     Str(photoInner), Str(photoUpload), Str(photoRel), Str(photoUpper),
     Str(SLASH_UPLOADS), Str(UPLOADS)}

(***************************************************************************)
(* Specification SpecPhoto: the module is loaded under some environment,   *)
(* then resolvePhoto is called on some photo value.                        *)
(***************************************************************************)
\* the editor page is not mounted
EditorIdle ==
    /\ cvData = Undef
    /\ cvTitle = <<>>
    /\ isInitialLoad = TRUE
    /\ debouncedData = Undef
    /\ debouncedTitle = <<>>
    /\ autoSaveState = "idle"
    /\ getOne = "none"
    /\ serverCv = Undef
    /\ initialLoadTimer = <<>>
    /\ dataTimer = <<>>
    /\ titleTimer = <<>>
    /\ idleTimers = 0
    /\ pendingUpdates = 0
    /\ sent = <<>>
    /\ edits = 0
\* the customize page is not mounted
CustomizeIdle ==
    /\ persisted = Undef
    /\ cv = Null
    /\ customizeCvData = Undef
    /\ originalCVData = Undef
    /\ loading = FALSE
    /\ jobDescription = <<>>
    /\ analyzing = FALSE
    /\ suggestions = <<>>
    /\ appliedIds = {}
    /\ applyRequests = {}
    /\ refetches = 0
    /\ enhancing = FALSE
    /\ enhancedCV = Null
    /\ enhanceStatus = ""
    /\ applying = FALSE
    /\ applyPayload = Null
PagesIdle == EditorIdle /\ CustomizeIdle
DocIdle ==
    /\ data = Undef
    /\ isGerman = FALSE
    /\ themeProp = Undef
    /\ theme = Undef
    /\ output = [layout |-> "none", header |-> <<>>, blocks |-> <<>>]
SkillsIdle == rawSkills = Undef /\ skills = <<>> /\ skillCategories = Null
PhotoIdle ==
    /\ envUrl = Undef
    /\ API_BASE = LOCALHOST
    /\ photoArg = Undef
    /\ photoRes = Undef

InitPhoto ==
    /\ pc = "unloaded"
    /\ envUrl \in EnvUrls
    /\ API_BASE = <<>>
    /\ photoArg = Undef
    /\ photoRes = Undef
    /\ SkillsIdle
    /\ DocIdle
    /\ PagesIdle

\* evaluation of the module body of CVPreview.js
LoadModule ==
    /\ pc = "unloaded"
    /\ API_BASE' = ApiBaseOf(envUrl)
    /\ pc' = "loaded"
    /\ UNCHANGED <<envUrl, photoArg, photoRes, skillVars, docVars, pageVars>>

CallResolvePhoto ==
    /\ pc = "loaded"
    /\ \E p \in PhotoInputs :
          /\ photoArg' = p
          /\ photoRes' = resolvePhoto(p, API_BASE)
    /\ pc' = "resolved"
    /\ UNCHANGED <<envUrl, API_BASE, skillVars, docVars, pageVars>>

NextPhoto == LoadModule \/ CallResolvePhoto

SpecPhoto == InitPhoto /\ [][NextPhoto]_vars

(***************************************************************************)
(* flattenSkills and getSkillCategories                                    *)
(***************************************************************************)
\* Array.prototype.filter(Boolean) on a sequence of values
FilterBoolean(a) == SelectSeq(a, Truthy)

\* s => (typeof s === 'string' ? s : s?.name || '')
skillName(s) ==
    IF IsStr(s) THEN s
    ELSE Or(IF IsNullish(s) THEN Undef ELSE Get(s, "name"), Str(<<>>))

\* v.map(s => ...)
skillNameMap(a) == [i \in 1..Len(a) |-> skillName(a[i])]

\* v.map(s => ...).filter(Boolean)
skillNames(a) == FilterBoolean(skillNameMap(a))

\* Object.entries(skills).flatMap(([, v]) => Array.isArray(v) ? ... : [])
RECURSIVE flatMapEntries(_)
flatMapEntries(entries) ==
    IF entries = <<>> THEN <<>>
    ELSE (IF IsArr(Head(entries).v) THEN skillNames(Head(entries).v.v) ELSE <<>>)
         \o flatMapEntries(Tail(entries))

flattenSkillsKeepFalsy(s) ==
    IF ~Truthy(s) THEN <<>>
    ELSE IF IsArr(s) THEN skillNameMap(s.v)
    ELSE IF IsObj(s) THEN flatMapEntries(s.v)
    ELSE <<>>

\* flattenSkills(skills): the JS array returned, as a sequence of values
flattenSkills(s) ==
    IF ~Truthy(s) THEN <<>>
    ELSE IF IsArr(s) THEN skillNames(s.v)
    ELSE IF IsObj(s) THEN flatMapEntries(s.v)
    ELSE <<>>

\* getSkillCategories(skills): the mapping itself, or null
getSkillCategories(s) ==
    IF ~Truthy(s) \/ IsArr(s) THEN Null
    ELSE IF IsObj(s) THEN s
    ELSE Null

(***************************************************************************)
(* Inputs of the skills specification                                      *)
(***************************************************************************)
MaxSkills == 2      \* longest skills sequence
MaxCats == 2        \* most categories in a mapping

sGo == <<"G","o">>
sRust == <<"R","u","s","t">>

SkillEntries ==
    {Str(sGo), Str(sRust), Str(<<>>), Null,
     Obj(<<KV("name", Str(sGo))>>), Obj(<<KV("name", Str(sRust))>>),
     Obj(<<KV("name", Str(<<>>))>>), Obj(<<KV("level", Num(3))>>)}

CatEntries == {Str(sGo), Str(sRust), Obj(<<KV("name", Str(sGo))>>), Null}
CatKeys == {"Languages", "Tools"}

SeqsUpTo(S, n) == UNION {[1..k -> S] : k \in 0..n}

SkillArrays(n) == {Arr(a) : a \in SeqsUpTo(SkillEntries, n)}
CatValues(n) == {Arr(a) : a \in SeqsUpTo(CatEntries, n)} \cup {Str(sGo)}
\* the key orders of a mapping: no key twice
CatKeySeqs(c) ==
    {ks \in SeqsUpTo(CatKeys, c) :
        \A i, j \in 1..Len(ks) : i # j => ks[i] # ks[j]}
SkillMappings(n, c) ==
    UNION {{Obj([i \in 1..Len(ks) |-> KV(ks[i], vals[i])]) :
                vals \in [1..Len(ks) -> CatValues(n)]} : ks \in CatKeySeqs(c)}
SkillOthers == {Undef, Null, Str(<<>>), Str(sGo), Num(0), Num(5), Bool(TRUE)}
\* arrays of at most n entries, mappings of at most c categories, other values
SkillInputs(n, c) == SkillArrays(n) \cup SkillMappings(n, c) \cup SkillOthers

(***************************************************************************)
(* Specification SpecSkills: CVPreview normalises data.skills              *)
(* (const skills = flattenSkills(rawSkills);                               *)
(*  const skillCategories = getSkillCategories(rawSkills)).                *)
(***************************************************************************)
InitSkills ==
    /\ pc = "start"
    /\ rawSkills \in SkillInputs(MaxSkills, MaxCats)
    /\ skills = <<>>
    /\ skillCategories = Null
    /\ PhotoIdle
    /\ DocIdle
    /\ PagesIdle

CallFlattenSkills ==
    /\ pc = "start"
    /\ skills' = flattenSkills(rawSkills)
    /\ pc' = "flattened"
    /\ UNCHANGED <<rawSkills, skillCategories, photoVars, docVars, pageVars>>

CallGetSkillCategories ==
    /\ pc = "flattened"
    /\ skillCategories' = getSkillCategories(rawSkills)
    /\ pc' = "categorized"
    /\ UNCHANGED <<rawSkills, skills, photoVars, docVars, pageVars>>

NextSkills == CallFlattenSkills \/ CallGetSkillCategories

SpecSkills == InitSkills /\ [][NextSkills]_vars

(***************************************************************************)
(* Language detection                                                      *)
(***************************************************************************)
GERMAN_MARKERS ==
    <<<<"e","r","f","a","h","r","u","n","g">>,
      <<"k","e","n","n","t","n","i","s","s","e">>,
      <<"f","a_uml","h","i","g","k","e","i","t","e","n">>,
      <<"v","e","r","a","n","t","w","o","r","t","l","i","c","h">>,
      <<"u","n","t","e","r","n","e","h","m","e","n">>,
      <<"t","a_uml","t","i","g","k","e","i","t","e","n">>,
      <<"e","n","t","w","i","c","k","l","u","n","g">>,
      <<"a","u","f","g","a","b","e","n">>,
      <<"b","e","r","e","i","c","h">>,
      <<"m","i","t","t","e","l","s">>,
      <<"w","u","r","d","e","n">>,
      <<"w","u","r","d","e">>,
      <<"h","a","b","e","n">>,
      <<"l","e","i","t","u","n","g">>,
      <<"p","l","a","n","u","n","g">>,
      <<"u","m","s","e","t","z","u","n","g">>,
      <<"w","e","r","k","z","e","u","g">>,
      <<"a","r","b","e","i","t">>,
      <<"s","o","f","t","w","a","r","e","e","n","t","w","i","c","k","l","e","r">>,
      <<"i","n","g","e","n","i","e","u","r">>,
      <<"d","a","t","e","n","b","a","n","k","a","d","m","i","n","i","s","t","r","a","t","o","r">>>>

UpperChars == <<"A","B","C","D","E","F","G","H","I","J","K","L","M","N","O","P","Q","R","S","T","U","V","W","X","Y","Z","A_uml","O_uml","U_uml">>
LowerChars == <<"a","b","c","d","e","f","g","h","i","j","k","l","m","n","o","p","q","r","s","t","u","v","w","x","y","z","a_uml","o_uml","u_uml">>

\* String.prototype.toLowerCase
LowerChar(c) ==
    IF \E i \in 1..Len(UpperChars) : UpperChars[i] = c
    THEN LowerChars[CHOOSE i \in 1..Len(UpperChars) : UpperChars[i] = c]
    ELSE c
ToLowerCase(s) == [i \in 1..Len(s) |-> LowerChar(s[i])]

\* decimal digits of a natural number
RECURSIVE Digits(_)
Digits(n) ==
    LET d == <<"0","1","2","3","4","5","6","7","8","9">>[(n % 10) + 1]
    IN IF n < 10 THEN <<d>> ELSE Digits(n \div 10) \o <<d>>

\* ToString of a primitive, as applied by `value + ' '`
JsToString(x) ==
    CASE x.t = "string" -> x.v
      [] x.t = "number" -> Digits(x.v)
      [] x.t = "boolean" -> IF x.v THEN <<"t","r","u","e">> ELSE <<"f","a","l","s","e">>
      [] x.t = "null" -> <<"n","u","l","l">>
      [] x.t = "undefined" -> <<"u","n","d","e","f","i","n","e","d">>

SummaryWindow == 400
DescriptionWindow == 200
SampledExperiences == 2
GermanThreshold == 2

\* const pi = data.personal_info || {}
PersonalInfo(d) == Or(Get(d, "personal_info"), Obj(<<>>))
\* (pi.title || pi.jobTitle || '')
SampleTitle(d) ==
    Or(Or(Get(PersonalInfo(d), "title"), Get(PersonalInfo(d), "jobTitle")), Str(<<>>))
\* (pi.summary || data.profile_summary || '')
SampleSummary(d) ==
    Or(Or(Get(PersonalInfo(d), "summary"), Get(d, "profile_summary")), Str(<<>>))
\* data.experiences || data.experience || []
SampleExps(d) == Or(Or(Get(d, "experiences"), Get(d, "experience")), Arr(<<>>))
\* (e.description || '')
SampleDescription(e) == Or(Get(e, "description"), Str(<<>>))

\* The TypeErrors detectGerman raises: data is null; the summary or a
\* sampled description is a truthy value without substring; exps is a truthy
\* value that is no array (no slice, or a slice without forEach); a sampled
\* experience is null or undefined.
detectGermanThrows(d) ==
    \/ IsNullish(d)
    \/ ~IsStr(SampleSummary(d))
    \/ ~IsArr(SampleExps(d))
    \/ \E i \in 1..Len(SampleExps(d).v) :
          /\ i <= SampledExperiences
          /\ \/ IsNullish(SampleExps(d).v[i])
             \/ ~IsStr(SampleDescription(SampleExps(d).v[i]))

RECURSIVE SampleDescriptions(_)
SampleDescriptions(es) ==
    IF es = <<>> THEN <<>>
    ELSE Substring0(SampleDescription(Head(es)).v, DescriptionWindow) \o <<" ">>
         \o SampleDescriptions(Tail(es))

RECURSIVE WholeDescriptions(_)
WholeDescriptions(es) ==
    IF es = <<>> THEN <<>>
    ELSE SampleDescription(Head(es)).v \o <<" ">> \o WholeDescriptions(Tail(es))

\* the sample built without substring and without slice
SampleOfWholeTexts(d) ==
    ToLowerCase(
        JsToString(SampleTitle(d)) \o <<" ">>
        \o SampleSummary(d).v \o <<" ">>
        \o WholeDescriptions(SampleExps(d).v))

\* the lowercased sample detectGerman builds (when it does not throw)
SampleOf(d) ==
    ToLowerCase(
        JsToString(SampleTitle(d)) \o <<" ">>
        \o Substring0(SampleSummary(d).v, SummaryWindow) \o <<" ">>
        \o SampleDescriptions(Substring0(SampleExps(d).v, SampledExperiences)))

\* GERMAN_MARKERS.filter(w => sample.includes(w)).length
MarkerScore(sample) ==
    Len(SelectSeq(GERMAN_MARKERS, LAMBDA w : Includes(sample, w)))

detectGermanAtOne(d) == MarkerScore(SampleOf(d)) >= 1

\* detectGerman(data)
detectGerman(d) == MarkerScore(SampleOf(d)) >= GermanThreshold

(***************************************************************************)
(* Inputs of the detection specification                                   *)
(***************************************************************************)
MaxExps == 3        \* longest experiences sequence

txtSpecSentence == <<"v","e","r","a","n","t","w","o","r","t","l","i","c","h"," ","f","u_uml","r"," ","d","i","e"," ","E","n","t","w","i","c","k","l","u","n","g"," ","u","n","d"," ","L","e","i","t","u","n","g">>
txtEnglish == <<"R","e","s","p","o","n","s","i","b","l","e"," ","f","o","r"," ","d","e","v","e","l","o","p","m","e","n","t">>
txtMixedCase == <<"E","R","F","A","H","R","U","N","G"," ","i","n"," ","P","l","a","n","u","n","g">>
txtOneMarker == <<"T","e","a","m"," ","L","e","i","t","u","n","g">>
txtTitleDe == <<"S","o","f","t","w","a","r","e","e","n","t","w","i","c","k","l","e","r">>
txtTitleEn == <<"E","n","g","i","n","e","e","r">>
txtDescDe == <<"A","u","f","g","a","b","e","n">>
txtDescEn == <<"B","u","i","l","t"," ","A","P","I","s">>
txtTail == <<"e","r","f","a","h","r","u","n","g"," ","k","e","n","n","t","n","i","s","s","e">>
txtUmlaut == <<"F","A_uml","H","I","G","K","E","I","T","E","N"," ","u","n","d"," ","T","A_uml","T","I","G","K","E","I","T","E","N">>

Pad(n) == [i \in 1..n |-> "x"]

\* an object literal with the entries whose value is not undefined
Fields(entries) == Obj(SelectSeq(entries, LAMBDA e : e.v # Undef))

ExpWith(desc) == Obj(<<KV("description", Str(desc))>>)

TitleOnlyDoc(w) == Obj(<<KV("personal_info", Obj(<<KV("title", Str(w))>>))>>)
SummaryOnlyDoc(w) == Obj(<<KV("personal_info", Obj(<<KV("summary", Str(w))>>))>>)
DescriptionOnlyDoc(w) == Obj(<<KV("experiences", Arr(<<ExpWith(w)>>))>>)

SingleWordDocs ==
    UNION {{TitleOnlyDoc(GERMAN_MARKERS[i]), SummaryOnlyDoc(GERMAN_MARKERS[i]),
            DescriptionOnlyDoc(GERMAN_MARKERS[i])} : i \in 1..Len(GERMAN_MARKERS)}

DetectTitles == {Undef, Str(txtTitleDe), Str(txtTitleEn)}
DetectSummaries ==
    {Undef, Str(txtSpecSentence), Str(txtEnglish), Str(txtMixedCase),
     Str(txtOneMarker), Str(txtUmlaut)}
DetectExps ==
    {Arr(a) : a \in SeqsUpTo({ExpWith(txtDescDe), ExpWith(txtDescEn)}, MaxExps)}

TextDocs ==
    {Fields(<<KV("personal_info", Fields(<<KV("title", ti), KV("summary", su)>>)),
              KV("experiences", ex)>>) :
        ti \in DetectTitles, su \in DetectSummaries, ex \in DetectExps}

\* the legacy field names, text beyond the sampled windows, and values of
\* the wrong type
AliasDocs ==
    {Obj(<<KV("personal_info", Obj(<<KV("jobTitle", Str(txtTitleDe))>>)),
           KV("profile_summary", Str(txtOneMarker))>>),
     Obj(<<KV("experience", Arr(<<ExpWith(txtDescDe), ExpWith(txtOneMarker)>>))>>),
     Obj(<<KV("title", Str(txtTitleDe)), KV("profile_summary", Str(txtOneMarker))>>),
     Obj(<<KV("profile_summary", Str(Pad(SummaryWindow - 5) \o txtTail))>>),
     Obj(<<KV("profile_summary", Str(Pad(SummaryWindow - Len(txtTail)) \o txtTail))>>),
     Obj(<<KV("experiences",
              Arr(<<ExpWith(Pad(DescriptionWindow - 5) \o txtTail)>>))>>),
     Obj(<<KV("personal_info", Obj(<<KV("title", Num(2024))>>))>>),
     Obj(<<KV("experiences",
              Arr(<<ExpWith(txtDescEn), ExpWith(txtDescEn), ExpWith(txtTail)>>))>>),
     Obj(<<KV("personal_info", Obj(<<KV("name", Str(txtTail)),
                                     KV("location", Str(txtSpecSentence))>>)),
           KV("hobbies", Str(txtTail)),
           KV("educations", Arr(<<Obj(<<KV("degree", Str(txtSpecSentence))>>)>>)),
           KV("experiences",
              Arr(<<Obj(<<KV("role", Str(txtTail)),
                          KV("description", Str(txtDescEn))>>)>>))>>),
     Obj(<<>>)}

MalformedDetectDocs ==
    {Null,
     Obj(<<KV("personal_info", Obj(<<KV("summary", Num(5))>>))>>),
     Obj(<<KV("experiences", Str(txtDescDe))>>),
     Obj(<<KV("experiences", Arr(<<Null>>))>>),
     Obj(<<KV("experiences", Arr(<<Obj(<<KV("description", Num(5))>>)>>))>>)}

DetectDocs == SingleWordDocs \cup TextDocs \cup AliasDocs \cup MalformedDetectDocs

(***************************************************************************)
(* Specification SpecDetect: detectGerman(data) is called on a document.   *)
(***************************************************************************)
InitDetect ==
    /\ pc = "start"
    /\ data \in DetectDocs
    /\ isGerman = FALSE
    /\ themeProp = Undef
    /\ theme = Undef
    /\ output = [layout |-> "none", header |-> <<>>, blocks |-> <<>>]
    /\ PhotoIdle
    /\ SkillsIdle
    /\ PagesIdle

CallDetectGerman ==
    /\ pc = "start"
    /\ IF detectGermanThrows(data)
       THEN pc' = "threw" /\ isGerman' = isGerman
       ELSE pc' = "detected" /\ isGerman' = detectGerman(data)
    /\ UNCHANGED <<data, themeProp, theme, output, photoVars, skillVars, pageVars>>

NextDetect == CallDetectGerman

SpecDetect == InitDetect /\ [][NextDetect]_vars

(***************************************************************************)
(* CVPreview: theme, labels and the normalisation prologue                 *)
(***************************************************************************)
lblProfile == <<"P","r","o","f","i","l","e">>
lblExperience == <<"E","x","p","e","r","i","e","n","c","e">>
lblEducation == <<"E","d","u","c","a","t","i","o","n">>
lblSkills == <<"S","k","i","l","l","s">>
lblLanguages == <<"L","a","n","g","u","a","g","e","s">>
lblInterests == <<"I","n","t","e","r","e","s","t","s">>
lblProjects == <<"P","r","o","j","e","c","t","s">>
lblCertifications == <<"C","e","r","t","i","f","i","c","a","t","i","o","n","s">>
lblProfil == <<"P","r","o","f","i","l">>
lblBerufserfahrung == <<"B","e","r","u","f","s","e","r","f","a","h","r","u","n","g">>
lblBildung == <<"B","i","l","d","u","n","g">>
lblFaehigkeiten == <<"F","a_uml","h","i","g","k","e","i","t","e","n">>
lblSprachen == <<"S","p","r","a","c","h","e","n">>
lblInteressen == <<"I","n","t","e","r","e","s","s","e","n">>
lblProjekte == <<"P","r","o","j","e","k","t","e">>
lblZertifikate == <<"Z","e","r","t","i","f","i","k","a","t","e">>
txtPresent == <<"P","r","e","s","e","n","t">>
txtHeute == <<"H","e","u","t","e">>
txtYourName == <<"Y","o","u","r"," ","N","a","m","e">>
txtGrade == <<"G","r","a","d","e">>
txtNote == <<"N","o","t","e">>
txtRole == <<"R","o","l","e">>
DASH_SEP == <<" ","ndash"," ">>
IN_SEP == <<" ","i","n"," ">>
DOT_SEP == <<" ","middot"," ">>
layClean == <<"c","l","e","a","n">>
layModern == <<"m","o","d","e","r","n">>
layExecutive == <<"e","x","e","c","u","t","i","v","e">>
layMinimal == <<"m","i","n","i","m","a","l">>
layClassic == <<"c","l","a","s","s","i","c">>
styLine == <<"l","i","n","e">>
styBadge == <<"b","a","d","g","e">>
styDot == <<"d","o","t">>
colDefault == <<"#","1","a","1","a","1","a">>
fontDefault == <<"I","n","t","e","r",","," ","s","y","s","t","e","m","-","u","i",","," ","s","a","n","s","-","s","e","r","i","f">>
kwSmall == <<"s","m","a","l","l">>
kwMedium == <<"m","e","d","i","u","m">>
kwLarge == <<"l","a","r","g","e">>
kwSquare == <<"s","q","u","a","r","e">>
rad6px == <<"6","p","x">>
rad50 == <<"5","0","%">>
alpha012 == <<"0",".","1","2">>
alpha03 == <<"0",".","3">>

DEFAULT_THEME ==
    Obj(<<KV("primaryColor", Str(colDefault)), KV("fontFamily", Str(fontDefault)),
          KV("layout", Str(layClean)), KV("accentStyle", Str(styLine))>>)

LABELS_EN ==
    [profile |-> lblProfile, experience |-> lblExperience,
     education |-> lblEducation, skills |-> lblSkills,
     languages |-> lblLanguages, interests |-> lblInterests,
     projects |-> lblProjects, certifications |-> lblCertifications]
LABELS_DE ==
    [profile |-> lblProfil, experience |-> lblBerufserfahrung,
     education |-> lblBildung, skills |-> lblFaehigkeiten,
     languages |-> lblSprachen, interests |-> lblInteressen,
     projects |-> lblProjekte, certifications |-> lblZertifikate]

PhotoSmall == 56
PhotoMedium == 76
PhotoLarge == 100
PhotoDefault == 76

\* a function object, such as the methods every object inherits
Fn(name) == [t |-> "function", v |-> name]

\* names that an object literal inherits from Object.prototype
kwConstructor == <<"c","o","n","s","t","r","u","c","t","o","r">>
kwToString == <<"t","o","S","t","r","i","n","g">>
kwValueOf == <<"v","a","l","u","e","O","f">>
ObjectPrototypeKeys == {kwConstructor, kwToString, kwValueOf}

\* PHOTO_SIZE_MAP[key]: a property read on the object literal, which finds
\* the three own keys and, failing those, what Object.prototype defines
PHOTO_SIZE_MAP(key) ==
    IF key = Str(kwSmall) THEN Num(PhotoSmall)
    ELSE IF key = Str(kwMedium) THEN Num(PhotoMedium)
    ELSE IF key = Str(kwLarge) THEN Num(PhotoLarge)
    ELSE IF IsStr(key) /\ key.v \in ObjectPrototypeKeys THEN Fn(key.v)
    ELSE Undef

\* parseInt(s, 16) of a slice of at most two characters: the value of its
\* leading hexadecimal digits, "NaN" when it has none
HexChars == <<"0","1","2","3","4","5","6","7","8","9","a","b","c","d","e","f">>
HexUpper == <<"0","1","2","3","4","5","6","7","8","9","A","B","C","D","E","F">>
IsHex(c) == \E i \in 1..16 : HexChars[i] = c \/ HexUpper[i] = c
HexVal(c) == (CHOOSE i \in 1..16 : HexChars[i] = c \/ HexUpper[i] = c) - 1
ParseHex(s) ==
    IF Len(s) = 0 \/ ~IsHex(s[1]) THEN <<"N","a","N">>
    ELSE IF Len(s) = 1 \/ ~IsHex(s[2]) THEN Digits(HexVal(s[1]))
    ELSE Digits(16 * HexVal(s[1]) + HexVal(s[2]))

\* String.prototype.slice(a, b) for 0 <= a <= b
Slice(s, a, b) ==
    SubSeq(s, a + 1, IF b < Len(s) THEN b ELSE Len(s))

\* rgba(hex, a) for a string hex (hex.slice throws on anything else)
rgba(hex, a) ==
    <<"r","g","b","a","(">> \o ParseHex(Slice(hex, 1, 3)) \o <<",">>
    \o ParseHex(Slice(hex, 3, 5)) \o <<",">>
    \o ParseHex(Slice(hex, 5, 7)) \o <<",">> \o a \o <<")">>

\* { ...a, ...b } for an object a and a value b that is an object or
\* contributes no own enumerable property (undefined, null, number, boolean)
Spread(a, b) ==
    IF ~IsObj(b) THEN a
    ELSE Obj([i \in 1..Len(a.v) |->
                 IF HasKey(b, a.v[i].k) THEN KV(a.v[i].k, Get(b, a.v[i].k))
                 ELSE a.v[i]]
             \o SelectSeq(b.v, LAMBDA e : ~HasKey(a, e.k)))

\* ({ data = {} }): the default applies to undefined only
DefaultedTo(x, dflt) == IF x = Undef THEN dflt ELSE x

\* const theme = { ...DEFAULT_THEME, ...themeProp }
themeOf(tp) == Spread(DEFAULT_THEME, DefaultedTo(tp, Obj(<<>>)))
primaryOf(tp) == Get(themeOf(tp), "primaryColor")
\* const accentStyle = theme.accentStyle || 'line'
accentStyleOf(tp) == Or(Get(themeOf(tp), "accentStyle"), Str(styLine))
layoutOf(tp) == Get(themeOf(tp), "layout")

\* const photo = resolvePhoto(pi.photo || data.photo_path) (its argument)
photoValueOf(d) == Or(Get(PersonalInfo(d), "photo"), Get(d, "photo_path"))
experiencesOf(d) == Or(Get(d, "experiences"), Arr(<<>>))
educationOf(d) == Or(Get(d, "educations"), Arr(<<>>))
certsOf(d) == Or(Get(d, "certifications"), Arr(<<>>))
langsOf(d) == Or(Get(d, "languages"), Arr(<<>>))
projectsOf(d) == Or(Get(d, "projects"), Arr(<<>>))
interestsOf(d) == Or(Get(d, "interests"), Arr(<<>>))
hobbiesOf(d) == Or(Or(Get(d, "hobbies"), Get(d, "hobbies_text")), Str(<<>>))
customSectionsOf(d) == Or(Get(d, "custom_sections"), Arr(<<>>))
summaryOf(d) == Or(Or(Get(PersonalInfo(d), "summary"), Get(d, "profile_summary")), Str(<<>>))
\* the name resolved with the legacy field first
nameOfLegacyFirst(d) ==
    Or(Or(Get(d, "full_name"), Get(PersonalInfo(d), "name")), Str(<<>>))

nameOf(d) == Or(Or(Get(PersonalInfo(d), "name"), Get(d, "full_name")), Str(<<>>))
titleOf(d) ==
    Or(Or(Or(Get(PersonalInfo(d), "title"), Get(PersonalInfo(d), "jobTitle")),
          Get(d, "title")), Str(<<>>))
emailOf(d) == Or(Or(Get(PersonalInfo(d), "email"), Get(d, "email")), Str(<<>>))
phoneOf(d) == Or(Or(Get(PersonalInfo(d), "phone"), Get(d, "phone")), Str(<<>>))
locationOf(d) == Or(Or(Get(PersonalInfo(d), "location"), Get(d, "location")), Str(<<>>))
linkedinOf(d) ==
    Or(Or(Or(Get(PersonalInfo(d), "linkedin"), Get(PersonalInfo(d), "linkedin_url")),
          Get(d, "linkedin_url")), Str(<<>>))
websiteOf(d) == Or(Get(PersonalInfo(d), "website"), Str(<<>>))

\* const L = isGerman ? LABELS_DE : LABELS_EN
LabelsOf(german) == IF german THEN LABELS_DE ELSE LABELS_EN

photoSizePxOf(d) ==
    IF Get(PersonalInfo(d), "photoSize").t = "number"
    THEN Get(PersonalInfo(d), "photoSize")
    ELSE Or(PHOTO_SIZE_MAP(Get(PersonalInfo(d), "photoSize")), Num(PhotoDefault))
photoRadiusOf(d) ==
    IF Get(PersonalInfo(d), "photoShape") = Str(kwSquare) THEN rad6px ELSE rad50

\* x.length > 0
HasItems(x) == (IsArr(x) \/ IsStr(x)) /\ Len(x.v) > 0

\* what React shows for a child value: the text of a string or a number,
\* nothing for undefined, null and booleans
Txt(x) ==
    CASE x.t = "string" -> x.v
      [] x.t = "number" -> Digits(x.v)
      [] OTHER -> <<>>

\* Array.prototype.join(sep) over values
RECURSIVE Join(_, _)
Join(a, sep) ==
    IF a = <<>> THEN <<>>
    ELSE IF Len(a) = 1 THEN Txt(a[1])
    ELSE Txt(a[1]) \o sep \o Join(Tail(a), sep)

\* The TypeErrors of lines 124-161: data is null; the primary colour is not
\* a string (hex.slice); the photo is a truthy non-string; detectGerman.
prologueThrows(d, tp) ==
    \/ IsNullish(d)
    \/ ~IsStr(primaryOf(tp))
    \/ resolvePhotoThrows(photoValueOf(d))
    \/ detectGermanThrows(d)

(***************************************************************************)
(* CVPreview: the rendered tree.  A render is a record                     *)
(*   [layout, header, blocks]; blocks is the sequence of section           *)
(* containers in document order, each [key, title, body] with key the      *)
(* section it belongs to and title the SectionTitle (or plain heading)     *)
(* element it starts with.                                                 *)
(***************************************************************************)
COMMA_SEP == <<",", " ">>
MDASH_SEP == <<" ", "mdash", " ">>
COLON_SEP == <<":", " ">>
Whitespace == {" ", "TAB", "CR"}

\* <SectionTitle label color border style icon />; icon "" when not given
SectionTitle(label, color, style, icon) ==
    IF style = Str(styBadge)
    THEN [variant |-> "badge", label |-> label, color |-> color.v,
          icon |-> icon, rule |-> <<>>]
    ELSE IF style = Str(styDot)
    THEN [variant |-> "dot", label |-> label, color |-> color.v,
          icon |-> "", rule |-> rgba(color.v, alpha03)]
    ELSE [variant |-> "line", label |-> label, color |-> colDefault,
          icon |-> icon, rule |-> <<>>]

\* the sidebar headings of the modern layout: a plain <div>
PlainHeading(label) ==
    [variant |-> "plain", label |-> label, color |-> <<>>, icon |-> "",
     rule |-> <<>>]

Block(key, title, body) == [key |-> key, title |-> title, body |-> body]

\* cond && <element/>
When(cond, elems) == IF cond THEN elems ELSE <<>>

\* String.prototype.split('\n')
RECURSIVE SplitLines(_)
SplitLines(s) ==
    IF \A i \in 1..Len(s) : s[i] # "LF" THEN <<s>>
    ELSE LET n == CHOOSE i \in 1..Len(s) :
                      s[i] = "LF" /\ \A j \in 1..(i - 1) : s[j] # "LF"
         IN <<SubSeq(s, 1, n - 1)>> \o SplitLines(SubSeq(s, n + 1, Len(s)))

RECURSIVE DropWhitespace(_)
DropWhitespace(s) ==
    IF s # <<>> /\ Head(s) \in Whitespace THEN DropWhitespace(Tail(s)) ELSE s

\* line.replace(/^[bullet\-]\s*/, '')
StripBullet(line) ==
    IF line # <<>> /\ Head(line) \in {"bullet", "-"}
    THEN DropWhitespace(Tail(line)) ELSE line

\* exp.description.split('\n').filter(Boolean).map(line => ...)
descriptionLines(desc) ==
    IF ~Truthy(desc) THEN <<>>
    ELSE LET kept == SelectSeq(SplitLines(desc.v), LAMBDA l : l # <<>>)
         IN [i \in 1..Len(kept) |-> StripBullet(kept[i])]

\* the date range with the separator tested on the end alone
expDateRangeEndTest(exp, currentLabel) ==
    Txt(Get(exp, "startDate"))
    \o (IF Truthy(Get(exp, "endDate")) \/ Truthy(Get(exp, "current"))
        THEN DASH_SEP ELSE <<>>)
    \o (IF Truthy(Get(exp, "current")) THEN currentLabel
        ELSE Txt(Get(exp, "endDate")))

\* {exp.startDate}{(exp.startDate && (exp.endDate || exp.current)) ? ' - ' : ''}
\* {exp.current ? currentLabel : exp.endDate}
expDateRange(exp, currentLabel) ==
    Txt(Get(exp, "startDate"))
    \o (IF Truthy(Get(exp, "startDate"))
           /\ (Truthy(Get(exp, "endDate")) \/ Truthy(Get(exp, "current")))
        THEN DASH_SEP ELSE <<>>)
    \o (IF Truthy(Get(exp, "current")) THEN currentLabel
        ELSE Txt(Get(exp, "endDate")))

\* the entry with the title taken position first
expEntryPositionFirst(exp, noTitle, companySep, currentLabel) ==
    [title |-> Txt(Or(Or(Or(Get(exp, "position"), Get(exp, "role")),
                         Get(exp, "job_title")), Str(noTitle))),
     company |-> IF Truthy(Get(exp, "company"))
                 THEN companySep \o Txt(Get(exp, "company")) ELSE <<>>,
     location |-> IF Truthy(Get(exp, "location"))
                  THEN MDASH_SEP \o Txt(Get(exp, "location")) ELSE <<>>,
     dates |-> expDateRange(exp, currentLabel),
     lines |-> descriptionLines(Get(exp, "description"))]

\* one experience entry; noTitle is the placeholder of an untitled entry,
\* companySep the text before the company
expEntry(exp, noTitle, companySep, currentLabel) ==
    [title |-> Txt(Or(Or(Or(Get(exp, "role"), Get(exp, "position")),
                         Get(exp, "job_title")), Str(noTitle))),
     company |-> IF Truthy(Get(exp, "company"))
                 THEN companySep \o Txt(Get(exp, "company")) ELSE <<>>,
     location |-> IF Truthy(Get(exp, "location"))
                  THEN MDASH_SEP \o Txt(Get(exp, "location")) ELSE <<>>,
     dates |-> expDateRange(exp, currentLabel),
     lines |-> descriptionLines(Get(exp, "description"))]

expEntries(exps, noTitle, companySep, currentLabel) ==
    [i \in 1..Len(exps) |-> expEntry(exps[i], noTitle, companySep, currentLabel)]

\* {edu.startDate}{edu.startDate && edu.endDate ? ' - ' : ''}{edu.endDate}
eduDateRange(edu) ==
    Txt(Get(edu, "startDate"))
    \o (IF Truthy(Get(edu, "startDate")) /\ Truthy(Get(edu, "endDate"))
        THEN DASH_SEP ELSE <<>>)
    \o Txt(Get(edu, "endDate"))

eduEntry(edu, fieldSep, instSep, gradeLabel) ==
    [heading |-> Txt(Get(edu, "degree"))
                 \o (IF Truthy(Get(edu, "field"))
                     THEN fieldSep \o Txt(Get(edu, "field")) ELSE <<>>),
     institution |-> IF Truthy(Get(edu, "institution"))
                     THEN instSep \o Txt(Get(edu, "institution")) ELSE <<>>,
     dates |-> eduDateRange(edu),
     grade |-> IF Truthy(Get(edu, "grade"))
               THEN gradeLabel \o COLON_SEP \o Txt(Get(edu, "grade")) ELSE <<>>]

eduEntries(edus, fieldSep, instSep, gradeLabel) ==
    [i \in 1..Len(edus) |-> eduEntry(edus[i], fieldSep, instSep, gradeLabel)]

\* the flat pill cloud: skills.map((s, i) => <span>{s}</span>)
skillPills(flat) ==
    [form |-> "pills", groups |-> <<>>,
     items |-> [i \in 1..Len(flat) |-> Txt(flat[i])], text |-> <<>>]

\* renderSkills(compact)
renderSkills(compact, cats, flat) ==
    IF Truthy(cats)
    THEN [form |-> "grouped",
          groups |-> [i \in 1..Len(cats.v) |->
                        [cat |-> cats.v[i].k,
                         text |-> Join(skillNames(IF IsArr(cats.v[i].v)
                                                  THEN cats.v[i].v.v ELSE <<>>),
                                       DOT_SEP)]],
          items |-> <<>>, text |-> <<>>]
    ELSE IF compact
    THEN [form |-> "compact", groups |-> <<>>, items |-> <<>>,
          text |-> Join(flat, DOT_SEP)]
    ELSE skillPills(flat)

langEntries(ls) ==
    [i \in 1..Len(ls) |-> [language |-> Txt(Get(ls[i], "language")),
                           proficiency |-> Txt(Get(ls[i], "proficiency"))]]

\* typeof interest === 'string' ? interest
\*   : interest?.name || interest?.interest || ''   (clean, modern)
\*   : interest?.name || ''                         (executive, minimal, classic)
interestText(x, withInterestField) ==
    IF IsStr(x) THEN x
    ELSE IF IsNullish(x) THEN Str(<<>>)
    ELSE IF withInterestField
         THEN Or(Or(Get(x, "name"), Get(x, "interest")), Str(<<>>))
         ELSE Or(Get(x, "name"), Str(<<>>))

interestsBody(ints, hobbies, withInterestField) ==
    IF HasItems(ints)
    THEN [form |-> "chips",
          items |-> LET txts == SelectSeq(
                                  [i \in 1..Len(ints.v) |->
                                     interestText(ints.v[i], withInterestField)],
                                  Truthy)
                    IN [i \in 1..Len(txts) |-> Txt(txts[i])],
          text |-> <<>>]
    ELSE [form |-> "paragraph", items |-> <<>>, text |-> Txt(hobbies)]

projectEntries(ps) ==
    [i \in 1..Len(ps) |->
        [name |-> Txt(Get(ps[i], "name")),
         link |-> Txt(Or(Get(ps[i], "link"), Get(ps[i], "url"))),
         description |-> IF Truthy(Get(ps[i], "description"))
                         THEN Txt(Get(ps[i], "description")) ELSE <<>>]]

\* showsDate: the executive layout renders no date element
certEntries(cs, showsDate) ==
    [i \in 1..Len(cs) |->
        [name |-> Txt(Get(cs[i], "name")),
         issuer |-> IF Truthy(Get(cs[i], "issuer"))
                    THEN Txt(Get(cs[i], "issuer")) ELSE <<>>,
         showsDate |-> showsDate,
         date |-> IF showsDate
                  THEN Txt(Or(Get(cs[i], "issueDate"), Get(cs[i], "date")))
                  ELSE <<>>]]

\* the custom blocks filtered on the title alone
customBlocksTitleOnly(cs, color, style, icon) ==
    LET kept == SelectSeq(cs, LAMBDA c : Truthy(Get(c, "title")))
    IN [i \in 1..Len(kept) |->
          [key |-> "custom",
           title |-> [variant |-> "line", label |-> Get(kept[i], "title").v,
                      color |-> color.v, icon |-> icon, rule |-> <<>>],
           body |-> IF IsStr(Get(kept[i], "content"))
                    THEN Get(kept[i], "content").v ELSE <<>>]]

\* customSections.filter(cs => cs.title && cs.content).map(...)
customBlocks(cs, color, style, icon) ==
    LET kept == SelectSeq(cs, LAMBDA c : Truthy(Get(c, "title"))
                                          /\ Truthy(Get(c, "content")))
    IN [i \in 1..Len(kept) |->
          Block("custom",
                SectionTitle(Txt(Get(kept[i], "title")), color, style, icon),
                Txt(Get(kept[i], "content")))]

\* the contact items shown, in order
contactItems(d, withWebsite) ==
    When(Truthy(emailOf(d)), <<[kind |-> "email", text |-> Txt(emailOf(d))]>>)
    \o When(Truthy(phoneOf(d)), <<[kind |-> "phone", text |-> Txt(phoneOf(d))]>>)
    \o When(Truthy(locationOf(d)),
            <<[kind |-> "location", text |-> Txt(locationOf(d))]>>)
    \o When(Truthy(linkedinOf(d)),
            <<[kind |-> "linkedin", text |-> Txt(linkedinOf(d))]>>)
    \o When(withWebsite /\ Truthy(websiteOf(d)),
            <<[kind |-> "website", text |-> Txt(websiteOf(d))]>>)

\* name, title, contact row and photo
headerOf(d, base, withWebsite) ==
    [name |-> Txt(Or(nameOf(d), Str(txtYourName))),
     title |-> IF Truthy(titleOf(d)) THEN Txt(titleOf(d)) ELSE <<>>,
     contacts |-> contactItems(d, withWebsite),
     photo |-> When(Truthy(resolvePhoto(photoValueOf(d), base)),
                    <<[src |-> resolvePhoto(photoValueOf(d), base).v,
                       size |-> photoSizePxOf(d),
                       radius |-> photoRadiusOf(d)]>>)]

(***************************************************************************)
(* TypeErrors raised while a layout is built                               *)
(***************************************************************************)
\* xs.length > 0 && xs.map(x => x.field): xs is a non-empty string (no map)
\* or holds a null or undefined entry
listThrows(xs) ==
    IF ~HasItems(xs) THEN FALSE
    ELSE IF ~IsArr(xs) THEN TRUE
    ELSE \E i \in 1..Len(xs.v) : IsNullish(xs.v[i])

\* experiences: also exp.description.split on a truthy non-string
expListThrows(xs) ==
    IF listThrows(xs) THEN TRUE
    ELSE IF ~IsArr(xs) THEN FALSE
    ELSE \E i \in 1..Len(xs.v) :
          /\ Truthy(Get(xs.v[i], "description"))
          /\ ~IsStr(Get(xs.v[i], "description"))

\* interests.map on a non-empty string; the entries are read with ?.
interestsThrow(xs) == HasItems(xs) /\ ~IsArr(xs)

\* customSections.filter(cs => cs.title && cs.content): a truthy value
\* without filter, or a null or undefined entry
customThrows(xs) ==
    IF ~IsArr(xs) THEN TRUE
    ELSE \E i \in 1..Len(xs.v) : IsNullish(xs.v[i])

sectionsThrow(d, withCustom) ==
    \/ expListThrows(experiencesOf(d))
    \/ listThrows(educationOf(d))
    \/ listThrows(langsOf(d))
    \/ interestsThrow(interestsOf(d))
    \/ listThrows(projectsOf(d))
    \/ listThrows(certsOf(d))
    \/ withCustom /\ customThrows(customSectionsOf(d))

(***************************************************************************)
(* CVPreview: the five layout branches                                     *)
(***************************************************************************)
\* _renderExp without its early return on an empty list
renderExpAlways(exps, primary, style) ==
    <<Block("experience", SectionTitle(lblExperience, primary, style, ""),
            IF HasItems(exps)
            THEN expEntries(exps.v, txtRole, DOT_SEP, txtPresent) ELSE <<>>)>>

\* _renderExp(experiences, primary, border, accentStyle)
renderExp(exps, primary, style) ==
    When(HasItems(exps),
         <<Block("experience", SectionTitle(lblExperience, primary, style, ""),
                 expEntries(exps.v, txtRole, DOT_SEP, txtPresent))>>)

\* _renderEdu with its heading left at the default style
renderEduLineOnly(edus, primary, style) ==
    When(HasItems(edus),
         <<Block("education", SectionTitle(lblEducation, primary, Str(styLine), ""),
                 eduEntries(edus.v, IN_SEP, DOT_SEP, txtGrade))>>)

\* _renderEdu(education, primary, border, accentStyle)
renderEdu(edus, primary, style) ==
    When(HasItems(edus),
         <<Block("education", SectionTitle(lblEducation, primary, style, ""),
                 eduEntries(edus.v, IN_SEP, DOT_SEP, txtGrade))>>)

\* if (theme.layout === 'clean')
CleanLayout(d, tp, german, base) ==
    LET L == LabelsOf(german)
        primary == primaryOf(tp)
        style == accentStyleOf(tp)
        flat == flattenSkills(Get(d, "skills"))
        cats == getSkillCategories(Get(d, "skills"))
        currentLabel == IF german THEN txtHeute ELSE txtPresent
    IN [layout |-> "clean",
        header |-> headerOf(d, base, TRUE),
        blocks |->
            When(Truthy(summaryOf(d)),
                 <<Block("profile", SectionTitle(L.profile, primary, style, "person"),
                         Txt(summaryOf(d)))>>)
         \o When(HasItems(experiencesOf(d)),
                 <<Block("experience",
                         SectionTitle(L.experience, primary, style, "briefcase"),
                         expEntries(experiencesOf(d).v, <<"mdash">>, COMMA_SEP,
                                    currentLabel))>>)
         \o When(HasItems(educationOf(d)),
                 <<Block("education",
                         SectionTitle(L.education, primary, style, "cap"),
                         eduEntries(educationOf(d).v, DASH_SEP, COMMA_SEP,
                                    IF german THEN txtNote ELSE txtGrade))>>)
         \o When(Len(flat) > 0 \/ Truthy(cats),
                 <<Block("skills", SectionTitle(L.skills, primary, style, "bolt"),
                         renderSkills(FALSE, cats, flat))>>)
         \o When(HasItems(langsOf(d)),
                 <<Block("languages",
                         SectionTitle(L.languages, primary, style, "globe"),
                         langEntries(langsOf(d).v))>>)
         \o When(HasItems(interestsOf(d)) \/ Truthy(hobbiesOf(d)),
                 <<Block("interests",
                         SectionTitle(L.interests, primary, style, "target"),
                         interestsBody(interestsOf(d), hobbiesOf(d), TRUE))>>)
         \o When(HasItems(projectsOf(d)),
                 <<Block("projects",
                         SectionTitle(L.projects, primary, style, "rocket"),
                         projectEntries(projectsOf(d).v))>>)
         \o When(HasItems(certsOf(d)),
                 <<Block("certifications",
                         SectionTitle(L.certifications, primary, style, "medal"),
                         certEntries(certsOf(d).v, TRUE))>>)
         \o customBlocks(customSectionsOf(d).v, primary, style, "pin")]

\* if (theme.layout === 'modern'): sidebar, then main column
ModernLayout(d, tp, german, base) ==
    LET primary == primaryOf(tp)
        style == accentStyleOf(tp)
        flat == flattenSkills(Get(d, "skills"))
    IN [layout |-> "modern",
        header |-> headerOf(d, base, FALSE),
        blocks |->
            When(Len(flat) > 0,
                 <<Block("skills", PlainHeading(lblSkills), skillPills(flat))>>)
         \o When(HasItems(langsOf(d)),
                 <<Block("languages", PlainHeading(lblLanguages),
                         langEntries(langsOf(d).v))>>)
         \o When(HasItems(interestsOf(d)) \/ Truthy(hobbiesOf(d)),
                 <<Block("interests", PlainHeading(lblInterests),
                         interestsBody(interestsOf(d), hobbiesOf(d), TRUE))>>)
         \o When(Truthy(summaryOf(d)),
                 <<Block("profile", SectionTitle(lblProfile, primary, style, ""),
                         Txt(summaryOf(d)))>>)
         \o renderExp(experiencesOf(d), primary, style)
         \o renderEdu(educationOf(d), primary, style)
         \o When(HasItems(certsOf(d)),
                 <<Block("certifications",
                         SectionTitle(lblCertifications, primary, style, ""),
                         certEntries(certsOf(d).v, TRUE))>>)
         \o When(HasItems(projectsOf(d)),
                 <<Block("projects", SectionTitle(lblProjects, primary, style, ""),
                         projectEntries(projectsOf(d).v))>>)]

\* if (theme.layout === 'executive'): left column, then right column
ExecutiveLayout(d, tp, german, base) ==
    LET primary == primaryOf(tp)
        style == accentStyleOf(tp)
        flat == flattenSkills(Get(d, "skills"))
        cats == getSkillCategories(Get(d, "skills"))
    IN [layout |-> "executive",
        header |-> headerOf(d, base, FALSE),
        blocks |->
            When(Len(flat) > 0 \/ Truthy(cats),
                 <<Block("skills", SectionTitle(lblSkills, primary, style, ""),
                         renderSkills(TRUE, cats, flat))>>)
         \o When(HasItems(langsOf(d)),
                 <<Block("languages", SectionTitle(lblLanguages, primary, style, ""),
                         langEntries(langsOf(d).v))>>)
         \o When(HasItems(interestsOf(d)) \/ Truthy(hobbiesOf(d)),
                 <<Block("interests", SectionTitle(lblInterests, primary, style, ""),
                         interestsBody(interestsOf(d), hobbiesOf(d), FALSE))>>)
         \o When(HasItems(certsOf(d)),
                 <<Block("certifications",
                         SectionTitle(lblCertifications, primary, style, ""),
                         certEntries(certsOf(d).v, FALSE))>>)
         \o When(Truthy(summaryOf(d)),
                 <<Block("profile", SectionTitle(lblProfile, primary, style, ""),
                         Txt(summaryOf(d)))>>)
         \o renderExp(experiencesOf(d), primary, style)
         \o renderEdu(educationOf(d), primary, style)
         \o When(HasItems(projectsOf(d)),
                 <<Block("projects", SectionTitle(lblProjects, primary, style, ""),
                         projectEntries(projectsOf(d).v))>>)]

\* the body shared, line for line, by the minimal and the classic branch
StackedBlocks(d, tp) ==
    LET primary == primaryOf(tp)
        style == accentStyleOf(tp)
        flat == flattenSkills(Get(d, "skills"))
        cats == getSkillCategories(Get(d, "skills"))
    IN  When(Truthy(summaryOf(d)),
             <<Block("profile", SectionTitle(lblProfile, primary, style, ""),
                     Txt(summaryOf(d)))>>)
     \o renderExp(experiencesOf(d), primary, style)
     \o renderEdu(educationOf(d), primary, style)
     \o When(Len(flat) > 0,
             <<Block("skills", SectionTitle(lblSkills, primary, style, ""),
                     renderSkills(FALSE, cats, flat))>>)
     \o When(HasItems(langsOf(d)),
             <<Block("languages", SectionTitle(lblLanguages, primary, style, ""),
                     langEntries(langsOf(d).v))>>)
     \o When(HasItems(interestsOf(d)) \/ Truthy(hobbiesOf(d)),
             <<Block("interests", SectionTitle(lblInterests, primary, style, ""),
                     interestsBody(interestsOf(d), hobbiesOf(d), FALSE))>>)
     \o When(HasItems(certsOf(d)),
             <<Block("certifications",
                     SectionTitle(lblCertifications, primary, style, ""),
                     certEntries(certsOf(d).v, TRUE))>>)
     \o When(HasItems(projectsOf(d)),
             <<Block("projects", SectionTitle(lblProjects, primary, style, ""),
                     projectEntries(projectsOf(d).v))>>)
     \o customBlocks(customSectionsOf(d).v, primary, style, "")

\* if (theme.layout === 'minimal')
MinimalLayout(d, tp, german, base) ==
    [layout |-> "minimal",
     header |-> headerOf(d, base, FALSE),
     blocks |-> StackedBlocks(d, tp)]

\* the classic layout without its custom sections
ClassicLayoutNoCustom(d, tp, german, base) ==
    [layout |-> "classic",
     header |-> headerOf(d, base, TRUE),
     blocks |-> SelectSeq(StackedBlocks(d, tp), LAMBDA b : b.key # "custom")]

\* the final return: the classic layout, for every other theme.layout
ClassicLayout(d, tp, german, base) ==
    [layout |-> "classic",
     header |-> headerOf(d, base, TRUE),
     blocks |-> StackedBlocks(d, tp)]

(***************************************************************************)
(* Inputs of the rendering specification                                   *)
(***************************************************************************)
layNonexistent == <<"n","o","n","e","x","i","s","t","e","n","t">>
d2022 == <<"2","0","2","2","-","0","1">>
d2023 == <<"2","0","2","3","-","0","5">>
d2019 == <<"2","0","1","9","-","0","9">>
d2021 == <<"2","0","2","1","-","1","2">>
tAda == <<"A","d","a">>
tAcme == <<"A","c","m","e">>
tDev == <<"D","e","v","e","l","o","p","e","r">>
tLead == <<"L","e","a","d">>
tBerlin == <<"B","e","r","l","i","n">>
tBsc == <<"B","S","c">>
tCs == <<"C","S">>
tMit == <<"M","I","T">>
tGerman == <<"G","e","r","m","a","n">>
tC1 == <<"C","1">>
tChess == <<"C","h","e","s","s">>
tHiking == <<"H","i","k","i","n","g">>
tApp == <<"A","p","p">>
tAws == <<"A","W","S">>
tAmazon == <<"A","m","a","z","o","n">>
tAwards == <<"A","w","a","r","d","s">>
tPrize == <<"P","r","i","z","e"," ","2","0","2","0">>
tDescription == <<"bullet"," ","B","u","i","l","t"," ","A","P","I","s","LF","-"," ","L","e","d"," ","t","e","a","m">>
tTalks == <<"T","a","l","k","s">>
tBob == <<"B","o","b">>
tJob == <<"A","n","a","l","y","s","t">>
tParis == <<"P","a","r","i","s">>
tPhone == <<"+","4","9"," ","3","0"," ","1">>
tPhoneOld == <<"+","3","3"," ","1"," ","2">>
tMailOld == <<"b","o","b","@","y",".","i","o">>
colBlue == <<"#","2","5","6","3","e","b">>
fontGeorgia == <<"G","e","o","r","g","i","a",","," ","s","e","r","i","f">>
tMail == <<"a","d","a","@","x",".","i","o">>

expCurrent ==
    Obj(<<KV("role", Str(tLead)), KV("company", Str(tAcme)),
          KV("startDate", Str(d2022)), KV("endDate", Str(d2023)),
          KV("current", Bool(TRUE)), KV("description", Str(tDescription))>>)
expPast ==
    Obj(<<KV("position", Str(tDev)), KV("location", Str(tBerlin)),
          KV("startDate", Str(d2019)), KV("endDate", Str(d2021)),
          KV("current", Bool(FALSE))>>)
expEndOnly == Obj(<<KV("job_title", Str(tDev)), KV("endDate", Str(d2021))>>)
expStartOnly == Obj(<<KV("role", Str(tDev)), KV("startDate", Str(d2019))>>)

RenderSummaries == {Undef, Str(txtEnglish), Str(txtSpecSentence)}
RenderExps ==
    {Undef, Arr(<<>>), Arr(<<expCurrent>>), Arr(<<expPast, expCurrent>>),
     Arr(<<expEndOnly, expStartOnly>>)}
RenderSkills ==
    {Undef, Arr(<<>>), Arr(<<Str(sGo), Obj(<<KV("name", Str(sRust))>>)>>),
     Obj(<<>>), Obj(<<KV("Languages", Arr(<<>>))>>),
     Obj(<<KV("Languages", Arr(<<Str(sGo), Str(sRust)>>))>>),
     Obj(<<KV("Languages", Arr(<<Str(sGo)>>)), KV("Tools", Arr(<<>>))>>)}

\* the other optional parts of a document, and a populated value of each
OptionalKeys ==
    {"educations", "languages", "interests", "hobbies", "projects",
     "certifications", "custom_sections", "photo"}

Populated(k) ==
    CASE k = "educations" ->
            Arr(<<Obj(<<KV("degree", Str(tBsc)), KV("field", Str(tCs)),
                        KV("institution", Str(tMit)), KV("startDate", Str(d2019)),
                        KV("endDate", Str(d2021)), KV("grade", Str(tC1))>>),
                  Obj(<<KV("degree", Str(tBsc)), KV("startDate", Str(d2019))>>),
                  Obj(<<KV("degree", Str(tBsc)), KV("endDate", Str(d2021))>>)>>)
      [] k = "languages" ->
            Arr(<<Obj(<<KV("language", Str(tGerman)),
                        KV("proficiency", Str(tC1))>>)>>)
      [] k = "interests" ->
            Arr(<<Str(tChess), Obj(<<KV("name", Str(tHiking))>>),
                  Obj(<<KV("interest", Str(tApp))>>)>>)
      [] k = "hobbies" -> Str(tHiking)
      [] k = "projects" ->
            Arr(<<Obj(<<KV("name", Str(tApp)), KV("url", Str(urlHost))>>)>>)
      [] k = "certifications" ->
            Arr(<<Obj(<<KV("name", Str(tAws)), KV("issuer", Str(tAmazon)),
                        KV("date", Str(d2021))>>)>>)
      [] k = "custom_sections" ->
            Arr(<<Obj(<<KV("title", Str(tAwards)), KV("content", Str(tPrize))>>),
                  Obj(<<KV("title", Str(tAwards)), KV("content", Str(<<>>))>>),
                  Obj(<<KV("content", Str(tPrize))>>),
                  Obj(<<KV("title", Str(tTalks)), KV("content", Str(tChess))>>)>>)
      [] k = "photo" -> Str(photoSlashUploads)

\* an unpopulated part is absent (empty = FALSE) or present and empty
Unpopulated(k, empty) ==
    IF ~empty THEN Undef
    ELSE IF k \in {"hobbies", "photo"} THEN Str(<<>>) ELSE Arr(<<>>)

OptionalPatterns == {{}, OptionalKeys} \cup {{k} : k \in OptionalKeys}

Part(k, pattern, empty) ==
    IF k \in pattern THEN Populated(k) ELSE Unpopulated(k, empty)

RenderDoc(su, ex, sk, pattern, empty) ==
    Fields(<<KV("personal_info",
                Fields(<<KV("name", Str(tAda)), KV("email", Str(tMail)),
                         KV("summary", su),
                         KV("photo", Part("photo", pattern, empty))>>)),
             KV("experiences", ex),
             KV("educations", Part("educations", pattern, empty)),
             KV("skills", sk),
             KV("languages", Part("languages", pattern, empty)),
             KV("interests", Part("interests", pattern, empty)),
             KV("hobbies", Part("hobbies", pattern, empty)),
             KV("projects", Part("projects", pattern, empty)),
             KV("certifications", Part("certifications", pattern, empty)),
             KV("custom_sections", Part("custom_sections", pattern, empty))>>)

\* every summary, experience list and skills value, with the optional
\* parts all absent, all empty or all populated; and each optional part
\* populated alone
WellFormedDocs ==
    {RenderDoc(su, ex, sk, {}, empty) :
        su \in RenderSummaries, ex \in RenderExps, sk \in RenderSkills,
        empty \in BOOLEAN}
    \cup
    {RenderDoc(su, ex, sk, OptionalKeys, TRUE) :
        su \in RenderSummaries, ex \in RenderExps, sk \in RenderSkills}
    \cup
    {RenderDoc(su, Undef, sk, {k}, TRUE) :
        su \in RenderSummaries, k \in OptionalKeys,
        sk \in {Undef, Obj(<<KV("Languages", Arr(<<Str(sGo), Str(sRust)>>))>>)}}

\* documents that carry the nested personal_info fields, the legacy
\* top-level fields, or both
NestedModes == {"nopi", "absent", "empty", "value"}

Nested(mode, v) ==
    IF mode = "value" THEN Str(v) ELSE IF mode = "empty" THEN Str(<<>>) ELSE Undef

Legacy(present, v) == IF present THEN Str(v) ELSE Undef

LegacyDoc(mode, legacy, jobTitle) ==
    Fields(<<KV("personal_info",
                IF mode = "nopi" THEN Undef
                ELSE Fields(<<KV("name", Nested(mode, tAda)),
                              KV("title", Nested(mode, tLead)),
                              KV("jobTitle", Legacy(jobTitle, tJob)),
                              KV("summary", Nested(mode, txtEnglish)),
                              KV("email", Nested(mode, tMail)),
                              KV("phone", Nested(mode, tPhone)),
                              KV("location", Nested(mode, tBerlin))>>)),
             KV("full_name", Legacy(legacy, tBob)),
             KV("title", Legacy(legacy, tDev)),
             KV("profile_summary", Legacy(legacy, txtDescEn)),
             KV("email", Legacy(legacy, tMailOld)),
             KV("phone", Legacy(legacy, tPhoneOld)),
             KV("location", Legacy(legacy, tParis))>>)

LegacyDocs ==
    {LegacyDoc(mode, legacy, jobTitle) :
        mode \in NestedModes, legacy \in BOOLEAN, jobTitle \in BOOLEAN}

\* documents with an absent, null or wrongly typed part
MalformedDocs ==
    {Undef, Null, Obj(<<>>),
     Obj(<<KV("personal_info", Null), KV("skills", Null), KV("experiences", Null)>>),
     Obj(<<KV("personal_info", Str(tAda)), KV("skills", Str(sGo))>>),
     Obj(<<KV("skills", Num(5)), KV("educations", Num(5)), KV("interests", Num(5))>>),
     Obj(<<KV("interests", Arr(<<Null, Obj(<<>>), Str(tChess)>>))>>),
     Obj(<<KV("experiences", Str(tDescription))>>),
     Obj(<<KV("experiences", Arr(<<Null>>))>>),
     Obj(<<KV("experiences", Arr(<<expPast, expPast, Null>>))>>),
     Obj(<<KV("experiences", Arr(<<Obj(<<KV("description", Num(5))>>)>>))>>),
     Obj(<<KV("educations", Str(tBsc))>>),
     Obj(<<KV("educations", Arr(<<Null>>))>>),
     Obj(<<KV("personal_info", Obj(<<KV("summary", Num(5))>>))>>),
     Obj(<<KV("personal_info", Obj(<<KV("photo", Num(5))>>))>>),
     Obj(<<KV("custom_sections", Arr(<<Null>>))>>)}

RenderDocs == WellFormedDocs \cup LegacyDocs \cup MalformedDocs

Themes ==
    {Undef} \cup
    {Obj(<<KV("layout", Str(l))>>) :
        l \in {layClean, layModern, layExecutive, layMinimal, layClassic, layNonexistent}}

\* partial themes: the fields of missing are absent, null or undefined,
\* the others carry a value that is not the default
ThemeFields == {"primaryColor", "fontFamily", "layout", "accentStyle"}

ThemeField(f, missing, mode, v) ==
    IF f \notin missing THEN <<KV(f, Str(v))>>
    ELSE IF mode = "absent" THEN <<>>
    ELSE IF mode = "null" THEN <<KV(f, Null)>>
    ELSE <<KV(f, Undef)>>

PartialTheme(missing, mode) ==
    Obj(ThemeField("primaryColor", missing, mode, colBlue)
        \o ThemeField("fontFamily", missing, mode, fontGeorgia)
        \o ThemeField("layout", missing, mode, layModern)
        \o ThemeField("accentStyle", missing, mode, styBadge))

PartialThemes ==
    {Null} \cup
    {PartialTheme(missing, mode) :
        missing \in SUBSET ThemeFields, mode \in {"absent", "null", "undefined"}}

\* the documents rendered under the partial themes
ThemeDocs ==
    {Obj(<<>>),
     RenderDoc(Str(txtEnglish), Arr(<<expPast, expCurrent>>),
               Obj(<<KV("Languages", Arr(<<Str(sGo), Str(sRust)>>))>>),
               OptionalKeys, TRUE)}

\* experiences that carry several of role, position and job_title, in an
\* order that is sorted by no date
expEmptyRole ==
    Obj(<<KV("role", Str(<<>>)), KV("position", Str(tDev)),
          KV("job_title", Str(tJob)), KV("company", Str(tAcme)),
          KV("startDate", Str(d2022))>>)
expAllTitles ==
    Obj(<<KV("role", Str(tLead)), KV("position", Str(tDev)),
          KV("job_title", Str(tJob)), KV("company", Str(tMit)),
          KV("startDate", Str(d2019))>>)
expJobTitleOnly ==
    Obj(<<KV("position", Str(<<>>)), KV("job_title", Str(tJob)),
          KV("company", Str(tAmazon)), KV("startDate", Str(d2023))>>)

TitleDocs ==
    {Obj(<<KV("experiences", Arr(<<expEmptyRole, expAllTitles, expJobTitleOnly>>))>>),
     Obj(<<KV("experiences", Arr(<<expAllTitles, expJobTitleOnly, expEmptyRole>>))>>)}

\* descriptions with blank lines, a trailing newline, a doubled marker and
\* a line that holds a marker alone
tBlankLines == <<"B","u","i","l","t","LF","LF","-"," "," ","L","e","d","LF">>
tDoubledMarker == <<"-"," ","-"," ","L","e","d","LF","bullet","B","u","i","l","t">>
tMarkerOnly == <<"bullet"," ","B","u","i","l","t","LF","-"," ","LF","L","e","d">>

expDescribed(desc) ==
    Obj(<<KV("role", Str(tDev)), KV("description", Str(desc))>>)

BulletDocs ==
    {Obj(<<KV("experiences", Arr(<<expDescribed(t)>>))>>) :
        t \in {tBlankLines, tDoubledMarker, tMarkerOnly}}

\* the documents rendered under every layout and heading style
\* certifications dated by issueDate and date, by date alone, and undated
CertDocs ==
    {Obj(<<KV("certifications",
              Arr(<<Obj(<<KV("name", Str(tAws)), KV("issuer", Str(tAmazon)),
                          KV("issueDate", Str(d2022)), KV("date", Str(d2021))>>),
                    Obj(<<KV("name", Str(tApp)), KV("date", Str(d2019))>>),
                    Obj(<<KV("name", Str(tCs)), KV("issuer", Str(tMit))>>)>>))>>)}

DetailDocs ==
    TitleDocs \cup BulletDocs \cup CertDocs
    \cup {RenderDoc(Str(txtEnglish), Arr(<<expPast, expCurrent>>),
                     Arr(<<Str(sGo), Str(sRust)>>), OptionalKeys, TRUE)}

\* themes that name a layout, an accent style and a primary colour
styUnknown == <<"w","a","v","e">>

DetailThemes ==
    {Fields(<<KV("layout", Str(l)), KV("accentStyle", st), KV("primaryColor", co)>>) :
        l \in {layClean, layModern, layExecutive, layMinimal, layClassic},
        st \in {Undef, Str(styLine), Str(styBadge), Str(styDot), Str(styUnknown)},
        co \in {Undef, Str(colBlue)}}

\* documents with a photo and a stored size and shape
kwHuge == <<"h","u","g","e">>
kwRound == <<"r","o","u","n","d">>
tNumeric == <<"1","2","0">>

PhotoSizes ==
    {Undef, Null, Num(120), Num(0), Str(kwSmall), Str(kwMedium), Str(kwLarge),
     Str(kwHuge), Str(<<>>), Str(tNumeric), Str(kwConstructor), Str(kwToString)}
PhotoShapes == {Undef, Str(kwSquare), Str(kwRound), Str(kwHuge)}

PhotoDocs ==
    {Obj(<<KV("personal_info",
              Fields(<<KV("photo", Str(photoSlashUploads)),
                       KV("photoSize", size), KV("photoShape", shape)>>))>>) :
        size \in PhotoSizes, shape \in PhotoShapes}

\* the props of the renders explored
RenderInputs ==
    (RenderDocs \X Themes) \cup (ThemeDocs \X PartialThemes)
    \cup (DetailDocs \X DetailThemes) \cup (PhotoDocs \X Themes)

(***************************************************************************)
(* Specification Spec: one render of <CVPreview data theme />.  The        *)
(* module is loaded (API_BASE is set), the props are given, and the        *)
(* function body runs to its return or to the first exception.             *)
(***************************************************************************)
NoOutput == [layout |-> "none", header |-> <<>>, blocks |-> <<>>]

\* ({ data = {}, theme: themeProp = {} })
dataOf == DefaultedTo(data, Obj(<<>>))

Init ==
    /\ pc = "mounted"
    /\ \E props \in RenderInputs : data = props[1] /\ themeProp = props[2]
    /\ isGerman = FALSE
    /\ theme = Undef
    /\ output = NoOutput
    /\ PhotoIdle
    /\ SkillsIdle
    /\ PagesIdle

\* the chain of branches without its minimal test
BranchWithoutMinimal ==
    IF layoutOf(themeProp) = Str(layClean) THEN "clean"
    ELSE IF layoutOf(themeProp) = Str(layModern) THEN "modern"
    ELSE IF layoutOf(themeProp) = Str(layExecutive) THEN "executive"
    ELSE "classic"

\* the branch the render takes
Branch ==
    IF layoutOf(themeProp) = Str(layClean) THEN "clean"
    ELSE IF layoutOf(themeProp) = Str(layModern) THEN "modern"
    ELSE IF layoutOf(themeProp) = Str(layExecutive) THEN "executive"
    ELSE IF layoutOf(themeProp) = Str(layMinimal) THEN "minimal"
    ELSE "classic"

renderThrows ==
    IF prologueThrows(dataOf, themeProp) THEN TRUE
    ELSE sectionsThrow(dataOf, Branch \in {"clean", "minimal", "classic"})

\* the document after a body that takes the sampled experiences with
\* splice(0, 2) instead of slice(0, 2)
dataAfterSplice(d) ==
    IF IsObj(d) /\ IsArr(Get(d, "experiences"))
    THEN Obj([i \in 1..Len(d.v) |->
                IF d.v[i].k = "experiences"
                THEN KV("experiences",
                        Arr(SubSeq(d.v[i].v.v, SampledExperiences + 1,
                                   Len(d.v[i].v.v))))
                ELSE d.v[i]])
    ELSE d

\* The document object after the body ran.  No statement assigns to data,
\* to pi or to one of their parts, and the array methods called on them
\* (slice, map, filter, flatMap, forEach, join) leave their receiver alone.
dataAfterRender(d) == d

\* The theme object after the body ran: the spread copies themeProp into a
\* fresh object.
themePropAfterRender(tp) == tp

\* the locals set by lines 125, 135-137 and 154
Locals ==
    /\ theme' = themeOf(themeProp)
    /\ rawSkills' = Get(dataOf, "skills")
    /\ skills' = flattenSkills(Get(dataOf, "skills"))
    /\ skillCategories' = getSkillCategories(Get(dataOf, "skills"))
    /\ isGerman' = detectGerman(dataOf)
    /\ data' = dataAfterRender(data)
    /\ themeProp' = themePropAfterRender(themeProp)
    /\ UNCHANGED <<photoVars, pageVars>>

RenderThrows ==
    /\ pc = "mounted"
    /\ renderThrows
    /\ pc' = "threw"
    /\ UNCHANGED <<data, themeProp, theme, isGerman, output, photoVars, skillVars, pageVars>>

RenderClean ==
    /\ pc = "mounted" /\ Branch = "clean" /\ ~renderThrows
    /\ output' = CleanLayout(dataOf, themeProp, detectGerman(dataOf), API_BASE)
    /\ pc' = "rendered"
    /\ Locals

RenderModern ==
    /\ pc = "mounted" /\ Branch = "modern" /\ ~renderThrows
    /\ output' = ModernLayout(dataOf, themeProp, detectGerman(dataOf), API_BASE)
    /\ pc' = "rendered"
    /\ Locals

RenderExecutive ==
    /\ pc = "mounted" /\ Branch = "executive" /\ ~renderThrows
    /\ output' = ExecutiveLayout(dataOf, themeProp, detectGerman(dataOf), API_BASE)
    /\ pc' = "rendered"
    /\ Locals

RenderMinimal ==
    /\ pc = "mounted" /\ Branch = "minimal" /\ ~renderThrows
    /\ output' = MinimalLayout(dataOf, themeProp, detectGerman(dataOf), API_BASE)
    /\ pc' = "rendered"
    /\ Locals

RenderClassic ==
    /\ pc = "mounted" /\ Branch = "classic" /\ ~renderThrows
    /\ output' = ClassicLayout(dataOf, themeProp, detectGerman(dataOf), API_BASE)
    /\ pc' = "rendered"
    /\ Locals

Next ==
    \/ RenderThrows
    \/ RenderClean
    \/ RenderModern
    \/ RenderExecutive
    \/ RenderMinimal
    \/ RenderClassic

Spec == Init /\ [][Next]_vars

(***************************************************************************)
(* CVEditorPage (frontend/src/pages/CVEditorPage.js): the editor page that *)
(* loads a CV, lets the user edit it beside the preview and auto-saves it. *)
(*                                                                         *)
(* Time is counted in units of 100 ms.  A pending timer is a sequence of   *)
(* length one holding the time left (and, for a debounce timer, the value  *)
(* its callback will store); the empty sequence is no timer.  Of the       *)
(* document the model carries personal_info, experiences, interests and    *)
(* theme; the other sections are carried through load and save the way     *)
(* interests is.  The 2500 ms timers that reset the "Autosaved" indicator   *)
(* are counted, not timed: they feed nothing but the indicator, and the    *)
(* model lets each expire at any moment after it was set.  The manual Save *)
(* button and the photo upload are not modelled.                           *)
(***************************************************************************)
txtMyCV == <<"M","y"," ","C","V">>
tAdaCv == <<"A","d","a"," ","C","V">>
tNewTitle == <<"C","V"," ","2">>

InitialLoadDelay == 5
DebounceDelay == 14
MaxEdits == 2

\* the theme entry repeats the literals of DEFAULT_THEME
DEFAULT_CV ==
    Obj(<<KV("personal_info",
             Obj(<<KV("name", Str(<<>>)), KV("title", Str(<<>>)),
                   KV("email", Str(<<>>)), KV("phone", Str(<<>>)),
                   KV("location", Str(<<>>)), KV("linkedin", Str(<<>>)),
                   KV("website", Str(<<>>)), KV("summary", Str(<<>>))>>)),
          KV("experiences", Arr(<<>>)),
          KV("interests", Arr(<<>>)),
          KV("theme", DEFAULT_THEME)>>)

\* obj[k] = val
Assign(o, k, val) ==
    IF HasKey(o, k)
    THEN Obj([i \in 1..Len(o.v) |-> IF o.v[i].k = k THEN KV(k, val) ELSE o.v[i]])
    ELSE Obj(Append(o.v, KV(k, val)))

\* d.experiences.map(exp => ...): the statements of lines 90-103 in order
normalizedExperience(exp) ==
    IF ~IsObj(exp) THEN exp
    ELSE LET n1 == IF Truthy(Get(exp, "role")) /\ ~Truthy(Get(exp, "position"))
                   THEN Assign(exp, "position", Get(exp, "role")) ELSE exp
             n2 == IF Truthy(Get(n1, "position")) /\ ~Truthy(Get(n1, "role"))
                   THEN Assign(n1, "role", Get(n1, "position")) ELSE n1
             n3 == IF Truthy(Get(n2, "job_title")) /\ ~Truthy(Get(n2, "position"))
                   THEN Assign(Assign(n2, "position", Get(n2, "job_title")),
                               "role", Get(n2, "job_title"))
                   ELSE n2
             n4 == IF ~Truthy(Get(n3, "startDate")) /\ Truthy(Get(n3, "start_date"))
                   THEN Assign(n3, "startDate", Get(n3, "start_date")) ELSE n3
             n5 == IF ~Truthy(Get(n4, "endDate")) /\ Truthy(Get(n4, "end_date"))
                   THEN Assign(n4, "endDate", Get(n4, "end_date")) ELSE n4
         IN n5

normalizedExperiences(d) ==
    IF IsArr(Get(d, "experiences"))
    THEN Arr([i \in 1..Len(Get(d, "experiences").v) |->
                 normalizedExperience(Get(d, "experiences").v[i])])
    ELSE Arr(<<>>)

\* the argument of setCvData in the load effect
LoadedCv(d) ==
    Obj(<<KV("personal_info",
             Spread(Get(DEFAULT_CV, "personal_info"),
                    Or(Get(d, "personal_info"), Obj(<<>>)))),
          KV("experiences", normalizedExperiences(d)),
          KV("interests",
             IF IsArr(Get(d, "interests")) THEN Get(d, "interests") ELSE Arr(<<>>)),
          KV("theme",
             IF IsObj(Get(d, "theme")) /\ Truthy(Get(Get(d, "theme"), "primaryColor"))
             THEN Get(d, "theme") ELSE Get(DEFAULT_CV, "theme"))>>)

\* setTitle(d.title || 'My CV')
LoadedTitle(d) == Txt(Or(Get(d, "title"), Str(txtMyCV)))

\* buildPayload(data, currentTitle), with title the state of the render
buildPayload(doc, currentTitle, currentState) ==
    Obj(<<KV("title", Str(IF currentTitle # <<>> THEN currentTitle ELSE currentState)),
          KV("personal_info", Get(doc, "personal_info")),
          KV("experiences", Get(doc, "experiences")),
          KV("interests", Get(doc, "interests")),
          KV("theme", Or(Get(doc, "theme"), Get(DEFAULT_CV, "theme")))>>)

\* update(path, value) on the document: the objects on the path are copied
RECURSIVE update(_, _, _)
update(doc, parts, value) ==
    IF Len(parts) = 1 THEN Assign(doc, Head(parts), value)
    ELSE Assign(doc, Head(parts),
                update(Spread(Obj(<<>>), Or(Get(doc, Head(parts)), Obj(<<>>))),
                       Tail(parts), value))

\* the entry addExp appends
NewExperience ==
    Obj(<<KV("company", Str(<<>>)), KV("position", Str(<<>>)),
          KV("location", Str(<<>>)), KV("startDate", Str(<<>>)),
          KV("endDate", Str(<<>>)), KV("current", Bool(FALSE)),
          KV("description", Str(<<>>)), KV("skills", Arr(<<>>))>>)

addExp(doc) ==
    Assign(doc, "experiences",
           Arr(Append(Get(doc, "experiences").v, NewExperience)))

removeExp(doc, i) ==
    Assign(doc, "experiences",
           Arr(SubSeq(Get(doc, "experiences").v, 1, i - 1)
               \o SubSeq(Get(doc, "experiences").v, i + 1,
                         Len(Get(doc, "experiences").v))))

\* updateExp(i, field, val)
updateExp(doc, i, field, val) ==
    LET e == Assign(Get(doc, "experiences").v[i], field, val)
        synced == IF field = "position" THEN Assign(e, "role", val)
                  ELSE IF field = "role" THEN Assign(e, "position", val)
                  ELSE e
    IN Assign(doc, "experiences",
              Arr([Get(doc, "experiences").v EXCEPT ![i] = synced]))

\* the CVs the server may hold
ServerCvs ==
    {Obj(<<KV("title", Str(tAdaCv)),
           KV("personal_info", Obj(<<KV("name", Str(tAda))>>)),
           KV("experiences",
              Arr(<<Obj(<<KV("role", Str(tLead)), KV("company", Str(tAcme))>>)>>))>>),
     Obj(<<KV("personal_info", Obj(<<KV("name", Str(tAda))>>)),
           KV("experiences",
              Arr(<<Obj(<<KV("position", Str(tDev))>>),
                    Obj(<<KV("job_title", Str(tJob))>>)>>))>>),
     Obj(<<KV("title", Str(tAdaCv)),
           KV("experiences",
              Arr(<<Obj(<<KV("role", Str(tLead)), KV("position", Str(tDev)),
                          KV("company", Str(tAcme))>>)>>))>>)}

Timer(left, value) == <<[left |-> left, value |-> value]>>

\* a debounce effect: a changed value clears the pending timer and starts one
Debounce(timer, changed, value) ==
    IF changed THEN Timer(DebounceDelay, value) ELSE timer

\* the state after the first render and its effects: the load request is
\* sent, both debounce timers run, the auto-save effect returned early
InitEditor ==
    /\ pc = "editor"
    /\ cvData = [ref |-> 0, doc |-> DEFAULT_CV]
    /\ cvTitle = txtMyCV
    /\ isInitialLoad = TRUE
    /\ debouncedData = [ref |-> 0, doc |-> DEFAULT_CV]
    /\ debouncedTitle = txtMyCV
    /\ autoSaveState = "idle"
    /\ getOne = "pending"
    /\ serverCv \in ServerCvs
    /\ initialLoadTimer = <<>>
    /\ dataTimer = Timer(DebounceDelay, [ref |-> 0, doc |-> DEFAULT_CV])
    /\ titleTimer = Timer(DebounceDelay, txtMyCV)
    /\ idleTimers = 0
    /\ pendingUpdates = 0
    /\ sent = <<>>
    /\ edits = 0
    /\ CustomizeIdle
    /\ PhotoIdle
    /\ SkillsIdle
    /\ DocIdle

\* everything outside the editor page
previewVars == <<pc, photoVars, skillVars, docVars, customizeVars>>

\* the auto-save effect, run by a render in which one of debouncedData,
\* debouncedTitle and isInitialLoad changed
AutoSaveEffect(runs, dd, dt, initial) ==
    IF runs /\ ~initial
    THEN /\ autoSaveState' = "saving"
         /\ sent' = Append(sent, buildPayload(dd.doc, dt, cvTitle'))
         /\ pendingUpdates' = pendingUpdates + 1
    ELSE UNCHANGED <<autoSaveState, sent, pendingUpdates>>

\* cvAPI.getOne(id).then(res => ...)
GetOneResolves ==
    /\ getOne = "pending"
    /\ getOne' = "resolved"
    /\ cvTitle' = LoadedTitle(serverCv)
    /\ cvData' = [ref |-> cvData.ref + 1, doc |-> LoadedCv(serverCv)]
    /\ initialLoadTimer' = Timer(InitialLoadDelay, FALSE)
    /\ dataTimer' = Debounce(dataTimer, TRUE, cvData')
    /\ titleTimer' = Debounce(titleTimer, cvTitle' # cvTitle, cvTitle')
    /\ UNCHANGED <<isInitialLoad, debouncedData, debouncedTitle, autoSaveState,
                   serverCv, idleTimers, pendingUpdates, sent, edits, previewVars>>

\* .catch(err => ...): an alert, no state change
GetOneRejects ==
    /\ getOne = "pending"
    /\ getOne' = "rejected"
    /\ UNCHANGED <<cvData, cvTitle, isInitialLoad, debouncedData, debouncedTitle,
                   autoSaveState, serverCv, initialLoadTimer, dataTimer,
                   titleTimer, idleTimers, pendingUpdates, sent, edits, previewVars>>

\* setTimeout(() => setIsInitialLoad(false), 500) expires
InitialLoadTimerFires ==
    /\ initialLoadTimer # <<>> /\ initialLoadTimer[1].left = 0
    /\ initialLoadTimer' = <<>>
    /\ isInitialLoad' = FALSE
    /\ cvTitle' = cvTitle
    /\ AutoSaveEffect(isInitialLoad, debouncedData, debouncedTitle, FALSE)
    /\ UNCHANGED <<cvData, debouncedData, debouncedTitle, getOne, serverCv,
                   dataTimer, titleTimer, idleTimers, edits, previewVars>>

\* the timer of useDebounce(cvData, 1400) expires: setDebounced(value)
DebounceDataFires ==
    /\ dataTimer # <<>> /\ dataTimer[1].left = 0
    /\ dataTimer' = <<>>
    /\ debouncedData' = dataTimer[1].value
    /\ cvTitle' = cvTitle
    /\ AutoSaveEffect(dataTimer[1].value.ref # debouncedData.ref,
                      dataTimer[1].value, debouncedTitle, isInitialLoad)
    /\ UNCHANGED <<cvData, isInitialLoad, debouncedTitle, getOne, serverCv,
                   initialLoadTimer, titleTimer, idleTimers, edits, previewVars>>

\* the timer of useDebounce(title, 1400) expires
DebounceTitleFires ==
    /\ titleTimer # <<>> /\ titleTimer[1].left = 0
    /\ titleTimer' = <<>>
    /\ debouncedTitle' = titleTimer[1].value
    /\ cvTitle' = cvTitle
    /\ AutoSaveEffect(titleTimer[1].value # debouncedTitle,
                      debouncedData, titleTimer[1].value, isInitialLoad)
    /\ UNCHANGED <<cvData, isInitialLoad, debouncedData, getOne, serverCv,
                   initialLoadTimer, dataTimer, idleTimers, edits, previewVars>>

\* cvAPI.update(...).then(() => { setAutoSaveState('saved'); setTimeout(...) })
UpdateResolves ==
    /\ pendingUpdates > 0
    /\ pendingUpdates' = pendingUpdates - 1
    /\ autoSaveState' = "saved"
    /\ idleTimers' = idleTimers + 1
    /\ UNCHANGED <<cvData, cvTitle, isInitialLoad, debouncedData, debouncedTitle,
                   getOne, serverCv, initialLoadTimer, dataTimer, titleTimer,
                   sent, edits, previewVars>>

\* .catch(() => setAutoSaveState('idle'))
UpdateRejects ==
    /\ pendingUpdates > 0
    /\ pendingUpdates' = pendingUpdates - 1
    /\ autoSaveState' = "idle"
    /\ UNCHANGED <<cvData, cvTitle, isInitialLoad, debouncedData, debouncedTitle,
                   getOne, serverCv, initialLoadTimer, dataTimer, titleTimer,
                   idleTimers, sent, edits, previewVars>>

\* setTimeout(() => setAutoSaveState('idle'), 2500) expires
IdleTimerFires ==
    /\ idleTimers > 0
    /\ idleTimers' = idleTimers - 1
    /\ autoSaveState' = "idle"
    /\ UNCHANGED <<cvData, cvTitle, isInitialLoad, debouncedData, debouncedTitle,
                   getOne, serverCv, initialLoadTimer, dataTimer, titleTimer,
                   pendingUpdates, sent, edits, previewVars>>

TimeLeft(timer) == {timer[i].left : i \in 1..Len(timer)}
TimesLeft ==
    TimeLeft(initialLoadTimer) \cup TimeLeft(dataTimer) \cup TimeLeft(titleTimer)

Later(timer, d) == [i \in 1..Len(timer) |-> [timer[i] EXCEPT !.left = @ - d]]

\* time passes, no further than the next expiry; an expired timer runs first
Elapse ==
    /\ TimesLeft # {}
    /\ \A l \in TimesLeft : l > 0
    /\ \E d \in 1..DebounceDelay :
          /\ \A l \in TimesLeft : d <= l
          /\ initialLoadTimer' = Later(initialLoadTimer, d)
          /\ dataTimer' = Later(dataTimer, d)
          /\ titleTimer' = Later(titleTimer, d)
    /\ UNCHANGED <<cvData, cvTitle, isInitialLoad, debouncedData, debouncedTitle,
                   autoSaveState, getOne, serverCv, idleTimers, pendingUpdates,
                   sent, edits, previewVars>>

\* a setCvData call of an event handler: a new object, the debounce restarts
SetCvData(doc) ==
    /\ edits < MaxEdits
    /\ edits' = edits + 1
    /\ cvData' = [ref |-> cvData.ref + 1, doc |-> doc]
    /\ dataTimer' = Debounce(dataTimer, TRUE, cvData')
    /\ UNCHANGED <<cvTitle, isInitialLoad, debouncedData, debouncedTitle,
                   autoSaveState, getOne, serverCv, initialLoadTimer, titleTimer,
                   idleTimers, pendingUpdates, sent, previewVars>>

\* <input value={title} onChange={e => setTitle(e.target.value)} />
SetTitle ==
    /\ edits < MaxEdits
    /\ edits' = edits + 1
    /\ \E v \in {tNewTitle, <<>>} :
          /\ cvTitle' = v
          /\ titleTimer' = Debounce(titleTimer, v # cvTitle, v)
    /\ UNCHANGED <<cvData, isInitialLoad, debouncedData, debouncedTitle,
                   autoSaveState, getOne, serverCv, initialLoadTimer, dataTimer,
                   idleTimers, pendingUpdates, sent, previewVars>>

\* updatePI('name', val)
UpdatePI ==
    \E v \in {tBob} :
        SetCvData(update(cvData.doc, <<"personal_info", "name">>, Str(v)))

AddExp == SetCvData(addExp(cvData.doc))

RemoveExp ==
    \E i \in 1..Len(Get(cvData.doc, "experiences").v) :
        SetCvData(removeExp(cvData.doc, i))

UpdateExp ==
    \E i \in 1..Len(Get(cvData.doc, "experiences").v) :
        \E field \in {"position", "company"} :
            \E v \in {<<>>, tJob} :
                SetCvData(updateExp(cvData.doc, i, field, Str(v)))

(***************************************************************************)
(* Specification SpecAutoSave: the editor page from its first render, with *)
(* the load request, every timer, the passing of time, the answers to the  *)
(* update requests, and the user typing a title or a name.                 *)
(***************************************************************************)
NextAutoSave ==
    \/ GetOneResolves
    \/ GetOneRejects
    \/ InitialLoadTimerFires
    \/ DebounceDataFires
    \/ DebounceTitleFires
    \/ UpdateResolves
    \/ UpdateRejects
    \/ IdleTimerFires
    \/ Elapse
    \/ SetTitle
    \/ UpdatePI

SpecAutoSave == InitEditor /\ [][NextAutoSave]_vars

(***************************************************************************)
(* Specification SpecEditor: the editor page from its first render, with   *)
(* the load request and the user adding, removing and editing experiences  *)
(* (in any order with the load; no time passes).                           *)
(***************************************************************************)
NextEditor ==
    \/ GetOneResolves
    \/ GetOneRejects
    \/ AddExp
    \/ RemoveExp
    \/ UpdateExp

SpecEditor == InitEditor /\ [][NextEditor]_vars

(***************************************************************************)
(* CVCustomizePage: the page analyses a CV against a job description,      *)
(* applies keyword suggestions, previews an enhanced CV and applies or     *)
(* discards it.  The server is outside the page: it answers a request in   *)
(* one step, at the moment the page receives the answer.  Toasts, the      *)
(* match score, the keyword lists and the job tracker entry do not reach   *)
(* the preview and are left out.                                           *)
(***************************************************************************)
tJobDescription == <<"G","o"," ","d","e","v","e","l","o","p","e","r">>
tBlank == <<" ">>
sDocker == <<"D","o","c","k","e","r">>
txtEnhanced == <<"S","e","a","s","o","n","e","d"," ","G","o"," ","e","n","g","i","n","e","e","r">>

MaxSuggestions == 2

\* const buildPreviewData = (raw) => ({ ... })
buildPreviewData(raw) ==
    Obj(<<KV("personal_info", Or(Get(raw, "personal_info"), Obj(<<>>))),
          KV("experiences", Or(Get(raw, "experiences"), Arr(<<>>))),
          KV("projects", Or(Get(raw, "projects"), Arr(<<>>))),
          KV("skills", Or(Get(raw, "skills"), Arr(<<>>))),
          KV("educations", Or(Get(raw, "educations"), Arr(<<>>))),
          KV("languages", Or(Get(raw, "languages"), Arr(<<>>))),
          KV("certifications", Or(Get(raw, "certifications"), Arr(<<>>))),
          KV("interests", Or(Get(raw, "interests"), Arr(<<>>))),
          KV("full_name", Or(Get(raw, "full_name"), Str(<<>>))),
          KV("title", Or(Get(raw, "title"), Str(<<>>))),
          KV("email", Or(Get(raw, "email"), Str(<<>>))),
          KV("phone", Or(Get(raw, "phone"), Str(<<>>))),
          KV("location", Or(Get(raw, "location"), Str(<<>>))),
          KV("linkedin_url", Or(Get(raw, "linkedin_url"), Str(<<>>))),
          KV("profile_summary", Or(Get(raw, "profile_summary"), Str(<<>>))),
          KV("photo_path", Or(Get(raw, "photo_path"), Str(<<>>)))>>)

\* JSON.parse(JSON.stringify(x)): a member that is undefined or a function
\* is dropped from an object and becomes null in an array
RECURSIVE JsonCopy(_)
JsonCopy(x) ==
    IF x.t = "object"
    THEN LET kept == SelectSeq(x.v, LAMBDA e : e.v.t \notin {"undefined", "function"})
         IN Obj([i \in 1..Len(kept) |-> KV(kept[i].k, JsonCopy(kept[i].v))])
    ELSE IF x.t = "array"
    THEN Arr([i \in 1..Len(x.v) |->
                 IF x.v[i].t \in {"undefined", "function"} THEN Null
                 ELSE JsonCopy(x.v[i])])
    ELSE x

\* !jobDescription.trim()
IsBlank(s) == \A i \in 1..Len(s) : s[i] \in Whitespace

\* the CVs the server may hold when the page opens
CustomizeCvs ==
    {Obj(<<KV("title", Str(tAdaCv)),
           KV("personal_info", Obj(<<KV("name", Str(tAda))>>)),
           KV("experiences", Arr(<<expPast>>)),
           KV("skills", Arr(<<Str(sGo)>>))>>),
     Obj(<<KV("full_name", Str(tAda)),
           KV("profile_summary", Str(txtEnglish))>>)}

\* the server's answer to POST /cvs/:id/customize: the suggestions it stores
ServerSuggestions == [i \in 1..MaxSuggestions |-> i]

\* the keyword a suggestion adds
SuggestedSkill(id) == IF id = 1 THEN Str(sRust) ELSE Str(sDocker)

\* the server applying a suggestion: the stored CV gains the keyword
ServerApplySuggestion(doc, id) ==
    LET old == Or(Get(doc, "skills"), Arr(<<>>)).v
    IN IF \E i \in 1..Len(old) : old[i] = SuggestedSkill(id) THEN doc
       ELSE Assign(doc, "skills", Arr(Append(old, SuggestedSkill(id))))

\* the server enhancing the stored CV for a job: an alternate document,
\* not stored
ServerEnhance(doc) == Assign(doc, "profile_summary", Str(txtEnhanced))

\* the server applying the AI changes: the enhanced CV is stored
ServerApplyAIChanges(doc, enhanced) == enhanced

\* the state after the first render and its effect: fetchCV is in flight
InitCustomize ==
    /\ pc = "customize"
    /\ persisted \in CustomizeCvs
    /\ cv = Null
    /\ customizeCvData = Obj(<<>>)
    /\ originalCVData = Obj(<<>>)
    /\ loading = TRUE
    /\ jobDescription = <<>>
    /\ analyzing = FALSE
    /\ suggestions = <<>>
    /\ appliedIds = {}
    /\ applyRequests = {}
    /\ refetches = 0
    /\ enhancing = FALSE
    /\ enhancedCV = Null
    /\ enhanceStatus = ""
    /\ applying = FALSE
    /\ applyPayload = Null
    /\ EditorIdle
    /\ PhotoIdle
    /\ SkillsIdle
    /\ DocIdle

\* everything outside the customize page
restVars == <<pc, photoVars, skillVars, docVars, editorVars>>

\* fetchCV: cvAPI.getOne answers
FetchCVResolves ==
    /\ loading
    /\ cv' = persisted
    /\ originalCVData' = JsonCopy(buildPreviewData(persisted))
    /\ customizeCvData' = JsonCopy(buildPreviewData(persisted))
    /\ loading' = FALSE
    /\ UNCHANGED <<persisted, jobDescription, analyzing, suggestions, appliedIds,
                   applyRequests, refetches, enhancing, enhancedCV,
                   enhanceStatus, applying, applyPayload, restVars>>

\* fetchCV: catch { showToast('Failed to load CV') } finally { setLoading(false) }
FetchCVRejects ==
    /\ loading
    /\ loading' = FALSE
    /\ UNCHANGED <<persisted, cv, customizeCvData, originalCVData,
                   jobDescription, analyzing, suggestions, appliedIds,
                   applyRequests, refetches, enhancing, enhancedCV,
                   enhanceStatus, applying, applyPayload, restVars>>

\* <textarea value={jobDescription} onChange={e => setJobDescription(e.target.value)} />
SetJobDescription ==
    /\ ~loading
    /\ \E v \in {<<>>, tBlank, tJobDescription} :
          /\ v # jobDescription
          /\ jobDescription' = v
    /\ UNCHANGED <<persisted, cv, customizeCvData, originalCVData, loading,
                   analyzing, suggestions, appliedIds, applyRequests, refetches,
                   enhancing, enhancedCV, enhanceStatus, applying,
                   applyPayload, restVars>>

\* handleAnalyze up to its await; the button is disabled while a request of
\* either flow is in flight or the job description is blank
HandleAnalyze ==
    /\ ~loading /\ ~analyzing /\ ~enhancing
    /\ ~IsBlank(jobDescription)
    /\ analyzing' = TRUE
    /\ suggestions' = <<>>
    /\ enhancedCV' = Null
    /\ enhanceStatus' = ""
    /\ UNCHANGED <<persisted, cv, customizeCvData, originalCVData, loading,
                   jobDescription, appliedIds, applyRequests, refetches,
                   enhancing, applying, applyPayload, restVars>>

\* handleAnalyze after its await: the answer or the catch branch
AnalyzeResolves ==
    /\ analyzing
    /\ analyzing' = FALSE
    /\ \E ok \in BOOLEAN :
          suggestions' = IF ok THEN ServerSuggestions ELSE <<>>
    /\ UNCHANGED <<persisted, cv, customizeCvData, originalCVData, loading,
                   jobDescription, appliedIds, applyRequests, refetches,
                   enhancing, enhancedCV, enhanceStatus, applying,
                   applyPayload, restVars>>

\* handleApplySuggestion(suggestion, index) up to its await; the Apply
\* button of a suggestion is shown until its index is in appliedIds
HandleApplySuggestion ==
    /\ ~loading
    /\ \E i \in 1..Len(suggestions) :
          /\ i \notin appliedIds
          /\ \A r \in applyRequests : r.index # i
          /\ applyRequests' = applyRequests \cup {[index |-> i, id |-> suggestions[i]]}
    /\ UNCHANGED <<persisted, cv, customizeCvData, originalCVData, loading,
                   jobDescription, analyzing, suggestions, appliedIds,
                   refetches, enhancing, enhancedCV, enhanceStatus, applying,
                   applyPayload, restVars>>

\* handleApplySuggestion after its await: the server has applied the
\* suggestion and answers with or without updated_cv; originalCVData is
\* not set
ApplySuggestionResolves ==
    \E r \in applyRequests :
        /\ applyRequests' = applyRequests \ {r}
        /\ persisted' = ServerApplySuggestion(persisted, r.id)
        /\ appliedIds' = appliedIds \cup {r.index}
        /\ \E withCv \in BOOLEAN :
              IF withCv
              THEN /\ customizeCvData' = buildPreviewData(persisted')
                   /\ UNCHANGED refetches
              ELSE /\ refetches' = refetches + 1
                   /\ UNCHANGED customizeCvData
        /\ UNCHANGED <<cv, originalCVData, loading, jobDescription, analyzing,
                       suggestions, enhancing, enhancedCV, enhanceStatus,
                       applying, applyPayload, restVars>>

\* handleApplySuggestion: the request fails, catch shows a toast
ApplySuggestionRejects ==
    \E r \in applyRequests :
        /\ applyRequests' = applyRequests \ {r}
        /\ UNCHANGED <<persisted, cv, customizeCvData, originalCVData, loading,
                       jobDescription, analyzing, suggestions, appliedIds,
                       refetches, enhancing, enhancedCV, enhanceStatus,
                       applying, applyPayload, restVars>>

\* handleApplySuggestion, else branch: cvAPI.getOne answers
RefetchResolves ==
    /\ refetches > 0
    /\ refetches' = refetches - 1
    /\ customizeCvData' = buildPreviewData(persisted)
    /\ UNCHANGED <<persisted, cv, originalCVData, loading, jobDescription,
                   analyzing, suggestions, appliedIds, applyRequests,
                   enhancing, enhancedCV, enhanceStatus, applying,
                   applyPayload, restVars>>

\* handleEnhanceWithAI up to its await
HandleEnhanceWithAI ==
    /\ ~loading /\ ~analyzing /\ ~enhancing
    /\ ~IsBlank(jobDescription)
    /\ enhancing' = TRUE
    /\ enhancedCV' = Null
    /\ enhanceStatus' = ""
    /\ UNCHANGED <<persisted, cv, customizeCvData, originalCVData, loading,
                   jobDescription, analyzing, suggestions, appliedIds,
                   applyRequests, refetches, applying, applyPayload, restVars>>

\* handleEnhanceWithAI after its await: success with an enhanced CV, or an
\* error status
EnhanceResolves ==
    /\ enhancing
    /\ enhancing' = FALSE
    /\ \E ok \in BOOLEAN :
          IF ok
          THEN /\ enhancedCV' = ServerEnhance(persisted)
               /\ customizeCvData' = buildPreviewData(enhancedCV')
               /\ enhanceStatus' = "success"
          ELSE /\ enhanceStatus' = "error"
               /\ UNCHANGED <<enhancedCV, customizeCvData>>
    /\ UNCHANGED <<persisted, cv, originalCVData, loading, jobDescription,
                   analyzing, suggestions, appliedIds, applyRequests,
                   refetches, applying, applyPayload, restVars>>

\* the Apply and Discard buttons are rendered under this condition
EnhancementPending == enhanceStatus = "success" /\ Truthy(enhancedCV)

\* handleApplyAIChanges up to its await; the button is disabled while applying
HandleApplyAIChanges ==
    /\ ~loading /\ EnhancementPending /\ ~applying
    /\ applying' = TRUE
    /\ applyPayload' = enhancedCV
    /\ UNCHANGED <<persisted, cv, customizeCvData, originalCVData, loading,
                   jobDescription, analyzing, suggestions, appliedIds,
                   applyRequests, refetches, enhancing, enhancedCV,
                   enhanceStatus, restVars>>

\* handleApplyAIChanges after its await: the saved CV becomes the preview
\* and the backup, or the catch branch
ApplyAIChangesResolves ==
    /\ applying
    /\ applying' = FALSE
    /\ applyPayload' = Null
    /\ \E ok \in BOOLEAN :
          IF ok
          THEN /\ persisted' = ServerApplyAIChanges(persisted, applyPayload)
               /\ customizeCvData' = buildPreviewData(persisted')
               /\ originalCVData' = JsonCopy(buildPreviewData(persisted'))
               /\ enhancedCV' = Null
               /\ enhanceStatus' = ""
          ELSE UNCHANGED <<persisted, customizeCvData, originalCVData,
                           enhancedCV, enhanceStatus>>
    /\ UNCHANGED <<cv, loading, jobDescription, analyzing, suggestions,
                   appliedIds, applyRequests, refetches, enhancing, restVars>>

\* handleDiscardEnhancement
HandleDiscardEnhancement ==
    /\ ~loading /\ EnhancementPending
    /\ customizeCvData' = JsonCopy(originalCVData)
    /\ enhancedCV' = Null
    /\ enhanceStatus' = ""
    /\ UNCHANGED <<persisted, cv, originalCVData, loading, jobDescription,
                   analyzing, suggestions, appliedIds, applyRequests,
                   refetches, enhancing, applying, applyPayload, restVars>>

(***************************************************************************)
(* Specification SpecCustomize: the customize page from its first render.  *)
(***************************************************************************)
NextCustomize ==
    \/ FetchCVResolves
    \/ FetchCVRejects
    \/ SetJobDescription
    \/ HandleAnalyze
    \/ AnalyzeResolves
    \/ HandleApplySuggestion
    \/ ApplySuggestionResolves
    \/ ApplySuggestionRejects
    \/ RefetchResolves
    \/ HandleEnhanceWithAI
    \/ EnhanceResolves
    \/ HandleApplyAIChanges
    \/ ApplyAIChangesResolves
    \/ HandleDiscardEnhancement

SpecCustomize == InitCustomize /\ [][NextCustomize]_vars

(***************************************************************************)
(* C1  Section omission: in each of the five layouts, a built-in section   *)
(* (profile, experience, education, skills, languages, interests,          *)
(* projects, certifications) whose backing collection is empty or absent   *)
(* (skills given as an empty category mapping, or as a mapping whose       *)
(* categories are all empty, included) has no heading and no container in  *)
(* the rendered output.                                                    *)
(***************************************************************************)
SectionKeys ==
    {"profile", "experience", "education", "skills", "languages",
     "interests", "projects", "certifications"}

BlockKeys(out) == {out.blocks[i].key : i \in 1..Len(out.blocks)}

BlockOf(out, k) ==
    out.blocks[CHOOSE i \in 1..Len(out.blocks) : out.blocks[i].key = k]

BackingEmpty(d, k) ==
    CASE k = "profile" -> ~Truthy(summaryOf(d))
      [] k = "experience" -> ~HasItems(experiencesOf(d))
      [] k = "education" -> ~HasItems(educationOf(d))
      [] k = "skills" -> flattenSkills(Get(d, "skills")) = <<>>
      [] k = "languages" -> ~HasItems(langsOf(d))
      [] k = "interests" -> ~HasItems(interestsOf(d)) /\ ~Truthy(hobbiesOf(d))
      [] k = "projects" -> ~HasItems(projectsOf(d))
      [] k = "certifications" -> ~HasItems(certsOf(d))

C1_SectionOmission ==
    pc = "rendered" =>
        \A k \in SectionKeys :
            BackingEmpty(dataOf, k) => k \notin BlockKeys(output)

(***************************************************************************)
(* C2  In each of the five layouts, an experience with a non-empty         *)
(* startDate S and current = true is dated "S - Present" (en dash) when    *)
(* the document is detected as English and "S - Heute" when it is detected *)
(* as German; its endDate is not shown.                                    *)
(***************************************************************************)
IsCurrentWithStart(exp) ==
    Truthy(Get(exp, "startDate")) /\ Get(exp, "current") = Bool(TRUE)

C2_CurrentLabelFollowsLanguage ==
    pc = "rendered" =>
        \A i \in 1..Len(experiencesOf(dataOf).v) :
            LET exp == experiencesOf(dataOf).v[i] IN
            IsCurrentWithStart(exp) =>
                BlockOf(output, "experience").body[i].dates
                  = Get(exp, "startDate").v \o DASH_SEP
                    \o (IF isGerman THEN txtHeute ELSE txtPresent)

(***************************************************************************)
(* C3  In every render, in each of the five layouts, every built-in        *)
(* section heading shown is the entry of the German label set when         *)
(* detectGerman returned true and of the English label set when it         *)
(* returned false.                                                         *)
(***************************************************************************)
C3_LabelsFollowDetection ==
    pc = "rendered" =>
        \A i \in 1..Len(output.blocks) :
            output.blocks[i].key \in SectionKeys =>
                output.blocks[i].title.label
                  = LabelsOf(isGerman)[output.blocks[i].key]

(***************************************************************************)
(* C4  detectGerman returns true exactly when at least 2 distinct entries  *)
(* of GERMAN_MARKERS occur as substrings of the lowercased sample text;    *)
(* a summary containing "verantwortlich fuer die Entwicklung und Leitung"  *)
(* (u-umlaut) is German, a document with no marker is English.             *)
(***************************************************************************)
MarkersPresent(text) ==
    {i \in 1..Len(GERMAN_MARKERS) : Includes(text, GERMAN_MARKERS[i])}

C4_DetectionThreshold ==
    pc = "detected" =>
        /\ isGerman <=> Cardinality(MarkersPresent(SampleOf(data))) >= 2
        /\ Includes(SampleSummary(data).v, txtSpecSentence) => isGerman
        /\ MarkersPresent(SampleOf(data)) = {} => ~isGerman

C4_Witness ==
    /\ pc = "detected"
    /\ SampleSummary(data) = Str(txtSpecSentence)
    /\ Cardinality(MarkersPresent(SampleOf(data))) = 3
    /\ isGerman

C4_WitnessOneMarker ==
    /\ pc = "detected"
    /\ Cardinality(MarkersPresent(SampleOf(data))) = 1
    /\ ~isGerman

(***************************************************************************)
(* C5  A single marker word selects English: for every word w of           *)
(* GERMAN_MARKERS, a document whose whole sample text is the one word w    *)
(* is classified English.                                                  *)
(***************************************************************************)
C5_SingleMarkerWordIsEnglish ==
    (pc = "detected" /\ data \in SingleWordDocs) => ~isGerman

(***************************************************************************)
(* C6  API_BASE is the configured URL with a trailing "/api" removed and   *)
(* every other character unchanged, the local origin when unset; so        *)
(* "/uploads/photo.png" under http://api.example.com resolves to           *)
(* "http://api.example.com/uploads/photo.png".                             *)
(***************************************************************************)
EndsWith(s, p) ==
    Len(s) >= Len(p) /\ SubSeq(s, Len(s) - Len(p) + 1, Len(s)) = p

TrailingApiRemoved(url) ==
    IF EndsWith(url, SLASH_API) THEN SubSeq(url, 1, Len(url) - Len(SLASH_API))
    ELSE url

C6_ApiBaseTrailingSuffix ==
    pc \in {"loaded", "resolved"} =>
        /\ IsNullish(envUrl) => API_BASE = LOCALHOST
        /\ (IsStr(envUrl) /\ TrailingApiRemoved(envUrl.v) # <<>>) =>
               API_BASE = TrailingApiRemoved(envUrl.v)
        /\ (pc = "resolved" /\ photoArg = Str(photoSlashUploads)
               /\ IsStr(envUrl) /\ envUrl.v \in {urlExample, urlExampleApi}) =>
               photoRes = Str(urlExample \o photoSlashUploads)

(***************************************************************************)
(* C7  resolvePhoto(p), p a non-empty string: API_BASE + "/" + p without   *)
(* its single leading slash when p starts with "/uploads/" or "uploads/"   *)
(* (exactly one slash between base and path); p itself otherwise.  An      *)
(* empty or absent photo resolves to no photo (null).                      *)
(***************************************************************************)
IsUploadsPath(p) == StartsWith(p, SLASH_UPLOADS) \/ StartsWith(p, UPLOADS)

C7_ResolvePhoto ==
    pc = "resolved" =>
        IF IsNullish(photoArg) \/ photoArg.v = <<>>
        THEN photoRes = Null
        ELSE IF IsUploadsPath(photoArg.v)
             THEN LET n == Len(API_BASE)
                      r == photoRes.v
                  IN /\ IsStr(photoRes)
                     /\ SubSeq(r, 1, n) = API_BASE
                     /\ r[n + 1] = "/"
                     /\ SubSeq(r, n + 2, Len(r)) \in
                            {q \in {photoArg.v, Tail(photoArg.v)} :
                                StartsWith(q, UPLOADS)}
             ELSE photoRes = photoArg

C7_Witness ==
    /\ pc = "resolved"
    /\ photoArg = Str(photoSlashUploads)
    /\ API_BASE = urlHost
    /\ photoRes = Str(urlHost \o photoSlashUploads)

(***************************************************************************)
(* C8  Skill flattening: a sequence of strings, the same names as {name}   *)
(* objects and the same names as the values of a category mapping all      *)
(* flatten to the same ordered list; falsy entries and entries without a   *)
(* name are dropped; only the mapping form yields a category grouping,     *)
(* one group per key in key order; any other value (null, absent, a        *)
(* string, a number) yields an empty list and no grouping.                 *)
(***************************************************************************)
\* the display name an entry stands for, <<>> when it has none
RECURSIVE NamesIn(_)
NamesIn(a) ==
    IF a = <<>> THEN <<>>
    ELSE LET e == Head(a)
             n == IF IsStr(e) THEN e.v
                  ELSE IF HasKey(e, "name") /\ IsStr(Get(e, "name"))
                       THEN Get(e, "name").v ELSE <<>>
         IN (IF n = <<>> THEN <<>> ELSE <<Str(n)>>) \o NamesIn(Tail(a))

RECURSIVE NamesInMapping(_)
NamesInMapping(m) ==
    IF m = <<>> THEN <<>>
    ELSE (IF IsArr(Head(m).v) THEN NamesIn(Head(m).v.v) ELSE <<>>)
         \o NamesInMapping(Tail(m))

AllStrings(a) == \A i \in 1..Len(a) : IsStr(a[i])
AsNameObjects(a) == [i \in 1..Len(a) |-> Obj(<<KV("name", a[i])>>)]

C8_SkillFlattening ==
    pc = "categorized" =>
        /\ IsArr(rawSkills) =>
               /\ skills = NamesIn(rawSkills.v)
               /\ skillCategories = Null
               /\ AllStrings(rawSkills.v) =>
                      /\ flattenSkills(Arr(AsNameObjects(rawSkills.v))) = skills
                      /\ flattenSkills(Obj(<<KV("Languages", rawSkills)>>)) = skills
        /\ IsObj(rawSkills) =>
               /\ skills = NamesInMapping(rawSkills.v)
               /\ IsObj(skillCategories)
               /\ [i \in 1..Len(skillCategories.v) |-> skillCategories.v[i].k]
                     = [i \in 1..Len(rawSkills.v) |-> rawSkills.v[i].k]
               /\ skillCategories = rawSkills
        /\ (~IsArr(rawSkills) /\ ~IsObj(rawSkills)) =>
               skills = <<>> /\ skillCategories = Null

C8_Witness ==
    /\ pc = "categorized"
    /\ rawSkills = Obj(<<KV("Languages", Arr(<<Str(sGo), Str(sRust)>>))>>)
    /\ skills = <<Str(sGo), Str(sRust)>>
    /\ skillCategories = rawSkills

(***************************************************************************)
(* C9  Whenever the skills of the document are a category mapping with at  *)
(* least one non-empty category, each of the five layouts shows the skills *)
(* section grouped by category, the items of a category joined by a middle *)
(* dot, and never as the flat pill cloud.                                  *)
(***************************************************************************)
HasNonEmptyCategory(raw) == IsObj(raw) /\ flattenSkills(raw) # <<>>

C9_GroupedSkillsEverywhere ==
    (pc = "rendered" /\ HasNonEmptyCategory(rawSkills)) =>
        /\ "skills" \in BlockKeys(output)
        /\ BlockOf(output, "skills").body.form = "grouped"

(***************************************************************************)
(* C10  For every document in which a field is absent, null or of the      *)
(* wrong type (data itself null, experiences or educations not a sequence, *)
(* a null entry inside experiences, a non-string description, summary or   *)
(* photo, custom_sections containing null), normalisation, language        *)
(* detection and rendering complete without raising an exception.          *)
(***************************************************************************)
C10_NeverThrows == pc # "threw"

(***************************************************************************)
(* C11  Partial theme: for every theme in which some of primaryColor,      *)
(* fontFamily, layout, accentStyle are missing (the key absent, or present *)
(* with a null or undefined value), rendering completes without an         *)
(* exception and the effective value of each missing field is its default  *)
(* ("#1a1a1a", "Inter, system-ui, sans-serif", clean, line).               *)
(***************************************************************************)
MissingIn(tp, f) == IF IsObj(tp) THEN IsNullish(Get(tp, f)) ELSE TRUE

ThemeDefault(f) ==
    CASE f = "primaryColor" -> Str(colDefault)
      [] f = "fontFamily" -> Str(fontDefault)
      [] f = "layout" -> Str(layClean)
      [] f = "accentStyle" -> Str(styLine)

EffectiveField(f) ==
    IF f = "accentStyle" THEN accentStyleOf(themeProp) ELSE Get(theme, f)

C11_PartialThemeNeverFails ==
    (pc # "mounted" /\ data \in ThemeDocs) =>
        /\ pc = "rendered"
        /\ \A f \in ThemeFields :
              MissingIn(themeProp, f) => EffectiveField(f) = ThemeDefault(f)
        /\ MissingIn(themeProp, "layout") => output.layout = "clean"

(***************************************************************************)
(* C12  Layout selection: theme.layout equal to clean, modern, executive,  *)
(* minimal or classic selects that layout's branch; every other value      *)
(* (such as "nonexistent") renders what the classic layout renders and     *)
(* raises no error of its own; the output of a render is the output of     *)
(* exactly that one branch.                                                *)
(***************************************************************************)
LayoutNames ==
    {<<layClean, "clean">>, <<layModern, "modern">>,
     <<layExecutive, "executive">>, <<layMinimal, "minimal">>,
     <<layClassic, "classic">>}

RequestedLayout == Get(themeOf(themeProp), "layout")

Recognised == \E n \in LayoutNames : RequestedLayout = Str(n[1])

ExpectedBranch ==
    IF Recognised
    THEN (CHOOSE n \in LayoutNames : RequestedLayout = Str(n[1]))[2]
    ELSE "classic"

AsClassic(tp) ==
    Obj(SelectSeq(IF IsObj(tp) THEN tp.v ELSE <<>>, LAMBDA e : e.k # "layout")
        \o <<KV("layout", Str(layClassic))>>)

C12_LayoutSelection ==
    /\ pc = "rendered" => output.layout = ExpectedBranch
    /\ (pc = "rendered" /\ ~Recognised) =>
          output = ClassicLayout(dataOf, AsClassic(themeProp), isGerman, API_BASE)
    /\ (pc = "threw" /\ ~Recognised) =>
          (data \in MalformedDocs \/ ~IsStr(primaryOf(themeProp)))

C12_Witness ==
    /\ pc = "rendered"
    /\ RequestedLayout = Str(layNonexistent)
    /\ output.layout = "classic"
    /\ output.blocks # <<>>

(***************************************************************************)
(* C13  Date-range separator: in each layout the " - " (en dash) separator *)
(* of an experience is emitted exactly when startDate is non-empty and     *)
(* (endDate is non-empty or current is true); an experience with only      *)
(* endDate set shows the end date alone; an education entry has the        *)
(* separator exactly when startDate and endDate are both non-empty.        *)
(***************************************************************************)
HasSeparator(dates) == Includes(dates, DASH_SEP)

ExpSeparatorDue(exp) ==
    /\ Truthy(Get(exp, "startDate"))
    /\ (Truthy(Get(exp, "endDate")) \/ Truthy(Get(exp, "current")))

EduSeparatorDue(edu) ==
    Truthy(Get(edu, "startDate")) /\ Truthy(Get(edu, "endDate"))

OnlyEndDate(exp) ==
    /\ ~Truthy(Get(exp, "startDate"))
    /\ ~Truthy(Get(exp, "current"))
    /\ IsStr(Get(exp, "endDate"))

C13_DateRangeSeparator ==
    pc = "rendered" =>
        /\ \A i \in 1..Len(experiencesOf(dataOf).v) :
              LET exp == experiencesOf(dataOf).v[i]
                  dates == BlockOf(output, "experience").body[i].dates
              IN /\ HasSeparator(dates) <=> ExpSeparatorDue(exp)
                 /\ OnlyEndDate(exp) => dates = Get(exp, "endDate").v
        /\ HasItems(educationOf(dataOf)) =>
              \A i \in 1..Len(educationOf(dataOf).v) :
                  HasSeparator(BlockOf(output, "education").body[i].dates)
                    <=> EduSeparatorDue(educationOf(dataOf).v[i])

C13_Witness ==
    /\ pc = "rendered"
    /\ output.layout = "modern"
    /\ experiencesOf(dataOf) = Arr(<<expEndOnly, expStartOnly>>)
    /\ BlockOf(output, "experience").body[1].dates = d2021
    /\ BlockOf(output, "experience").body[2].dates = d2019
    /\ Len(educationOf(dataOf).v) = 3
    /\ BlockOf(output, "education").body[2].dates = d2019

(***************************************************************************)
(* C14  Custom section filter: in each layout that renders custom          *)
(* sections, an entry is rendered exactly when its title and its content   *)
(* are both non-empty; the rendered entries keep their original relative   *)
(* order and come after all built-in sections.                             *)
(***************************************************************************)
CustomIndexes(out) ==
    {i \in 1..Len(out.blocks) : out.blocks[i].key = "custom"}

\* the (title, content) pairs of the custom blocks, in output order
CustomShown(out) ==
    LET shown == SelectSeq(out.blocks, LAMBDA b : b.key = "custom")
    IN [i \in 1..Len(shown) |-> <<shown[i].title.label, shown[i].body>>]

\* the (title, content) pairs of the entries with both parts, in input order
RECURSIVE CustomDue(_)
CustomDue(cs) ==
    IF cs = <<>> THEN <<>>
    ELSE (IF IsStr(Get(Head(cs), "title")) /\ Get(Head(cs), "title").v # <<>>
             /\ IsStr(Get(Head(cs), "content")) /\ Get(Head(cs), "content").v # <<>>
          THEN <<<<Get(Head(cs), "title").v, Get(Head(cs), "content").v>>>>
          ELSE <<>>)
         \o CustomDue(Tail(cs))

RendersCustom(out) == out.layout \in {"clean", "minimal", "classic"}

C14_CustomSectionFilter ==
    (pc = "rendered" /\ RendersCustom(output)) =>
        /\ CustomShown(output) = CustomDue(customSectionsOf(dataOf).v)
        /\ \A i \in CustomIndexes(output) :
              \A j \in 1..Len(output.blocks) :
                  output.blocks[j].key # "custom" => j < i

C14_Witness ==
    /\ pc = "rendered"
    /\ output.layout = "minimal"
    /\ Len(customSectionsOf(dataOf).v) = 4
    /\ CustomShown(output) = <<<<tAwards, tPrize>>, <<tTalks, tChess>>>>
    /\ Len(output.blocks) > 2

C17_EmptyDocument ==
    (pc # "mounted" /\ dataOf = Obj(<<>>) /\ IsStr(primaryOf(themeProp))) =>
        /\ pc = "rendered"
        /\ output.header.name = txtYourName
        /\ output.header.title = <<>>
        /\ output.header.contacts = <<>>
        /\ output.header.photo = <<>>
        /\ output.blocks = <<>>

C17_Witness ==
    /\ pc = "rendered"
    /\ data = Obj(<<>>)
    /\ output.layout = "executive"
    /\ output.header.name = txtYourName

(***************************************************************************)
(* C18  Custom sections appear in exactly two layouts: a document with a   *)
(* custom section whose title and content are both non-empty shows that    *)
(* section in the clean and minimal layouts and in no other layout         *)
(* (classic, modern, executive).                                           *)
(***************************************************************************)
HasCustomDue == CustomDue(customSectionsOf(dataOf).v) # <<>>

ShowsCustomDue(out) ==
    \A i \in 1..Len(CustomDue(customSectionsOf(dataOf).v)) :
        \E j \in CustomIndexes(out) :
            <<out.blocks[j].title.label, out.blocks[j].body>>
              = CustomDue(customSectionsOf(dataOf).v)[i]

C18_CustomInExactlyCleanAndMinimal ==
    (pc = "rendered" /\ HasCustomDue) =>
        IF output.layout \in {"clean", "minimal"}
        THEN ShowsCustomDue(output)
        ELSE CustomIndexes(output) = {}

\* C18 as amended: the section is shown in the clean, minimal and classic
\* layouts and in no other layout (modern, executive).
C18_CustomInCleanMinimalClassic ==
    (pc = "rendered" /\ HasCustomDue) =>
        IF output.layout \in {"clean", "minimal", "classic"}
        THEN ShowsCustomDue(output)
        ELSE CustomIndexes(output) = {}

C18_Witness ==
    /\ pc = "rendered"
    /\ HasCustomDue
    /\ output.layout = "classic"
    /\ RequestedLayout = Str(layClassic)
    /\ ShowsCustomDue(output)

(***************************************************************************)
(* C19  Language sample window: the detection result depends only on       *)
(* personal_info title/jobTitle, the first 400 characters of the summary   *)
(* and the first 200 characters of the descriptions of the first two       *)
(* experiences, compared case-insensitively: text outside that window      *)
(* (summary characters past 400, description characters past 200, the      *)
(* third and later experiences, any other field) never changes the result. *)
(***************************************************************************)
LowerText(x) == IF IsStr(x) THEN Str(ToLowerCase(x.v)) ELSE x

\* the document cut down to the window, its texts lowercased
WindowOnly(d) ==
    LET exps == SampleExps(d).v
        n == IF Len(exps) < 2 THEN Len(exps) ELSE 2
    IN Obj(<<KV("personal_info",
                Obj(<<KV("title", LowerText(SampleTitle(d))),
                      KV("summary",
                         Str(ToLowerCase(Substring0(SampleSummary(d).v, 400))))>>)),
             KV("experiences",
                Arr([i \in 1..n |->
                       Obj(<<KV("description",
                                Str(ToLowerCase(
                                      Substring0(SampleDescription(exps[i]).v,
                                                 200))))>>)]))>>)

C19_SampleWindow ==
    pc = "detected" => isGerman = detectGerman(WindowOnly(data))

\* two markers stand in the summary, past its first 400 characters
C19_Witness ==
    /\ pc = "detected"
    /\ ~isGerman
    /\ Len(SampleSummary(data).v) > 400
    /\ MarkerScore(ToLowerCase(SampleSummary(data).v)) >= 2

\* two markers stand in the third experience
C19_WitnessThirdExperience ==
    /\ pc = "detected"
    /\ ~isGerman
    /\ Len(SampleExps(data).v) = 3
    /\ MarkerScore(ToLowerCase(SampleDescription(SampleExps(data).v[3]).v)) >= 2

(***************************************************************************)
(* C20  Field resolution precedence: the name shown is personal_info.name  *)
(* if non-empty, else full_name, else empty (the placeholder); the title   *)
(* is personal_info.title, else personal_info.jobTitle, else the top-level *)
(* title, else empty; the summary is personal_info.summary, else           *)
(* profile_summary; email, phone and location prefer personal_info over    *)
(* the top-level field.  A non-empty nested value is never overridden by a *)
(* legacy top-level value.                                                 *)
(***************************************************************************)
NestedField(f) ==
    IF IsObj(Get(dataOf, "personal_info"))
    THEN Get(Get(dataOf, "personal_info"), f) ELSE Undef

NonEmptyText(x) == IF IsStr(x) THEN x.v # <<>> ELSE FALSE

\* the text of the first non-empty candidate, the empty text if none
RECURSIVE FirstNonEmpty(_)
FirstNonEmpty(cands) ==
    IF cands = <<>> THEN <<>>
    ELSE IF NonEmptyText(Head(cands)) THEN Head(cands).v
    ELSE FirstNonEmpty(Tail(cands))

ContactText(out, kind) ==
    IF \E i \in 1..Len(out.header.contacts) : out.header.contacts[i].kind = kind
    THEN out.header.contacts[CHOOSE i \in 1..Len(out.header.contacts) :
                                 out.header.contacts[i].kind = kind].text
    ELSE <<>>

ProfileText(out) ==
    IF "profile" \in BlockKeys(out) THEN BlockOf(out, "profile").body ELSE <<>>

C20_FieldResolutionPrecedence ==
    (pc = "rendered" /\ data \in LegacyDocs \cup WellFormedDocs) =>
        /\ output.header.name
             = (IF FirstNonEmpty(<<NestedField("name"), Get(dataOf, "full_name")>>) = <<>>
                THEN txtYourName
                ELSE FirstNonEmpty(<<NestedField("name"), Get(dataOf, "full_name")>>))
        /\ output.header.title
             = FirstNonEmpty(<<NestedField("title"), NestedField("jobTitle"),
                               Get(dataOf, "title")>>)
        /\ ProfileText(output)
             = FirstNonEmpty(<<NestedField("summary"), Get(dataOf, "profile_summary")>>)
        /\ \A f \in {"email", "phone", "location"} :
              ContactText(output, f)
                = FirstNonEmpty(<<NestedField(f), Get(dataOf, f)>>)

C20_Witness ==
    /\ pc = "rendered"
    /\ data = LegacyDoc("value", TRUE, TRUE)
    /\ output.header.name = tAda
    /\ output.header.title = tLead
    /\ ContactText(output, "location") = tBerlin

C20_WitnessLegacyOnly ==
    /\ pc = "rendered"
    /\ data = LegacyDoc("empty", TRUE, FALSE)
    /\ output.header.name = tBob
    /\ ProfileText(output) = txtDescEn

(***************************************************************************)
(* C21  Experience heading and order: in every layout the experiences are  *)
(* rendered in the order of the document's sequence, none re-sorted and    *)
(* none dropped, and the bold title of each entry is the first non-empty   *)
(* of role, position, job_title, in that priority.                         *)
(***************************************************************************)
ExpTitleDue(exp) ==
    FirstNonEmpty(<<Get(exp, "role"), Get(exp, "position"), Get(exp, "job_title")>>)

\* entry i of the rendered list is entry i of the document
ShowsExperience(entry, exp) ==
    /\ ExpTitleDue(exp) # <<>> => entry.title = ExpTitleDue(exp)
    /\ EndsWith(entry.company, Txt(Get(exp, "company")))
    /\ StartsWith(entry.dates, Txt(Get(exp, "startDate")))

C21_ExperienceOrderAndTitle ==
    (pc = "rendered" /\ HasItems(experiencesOf(dataOf))) =>
        /\ "experience" \in BlockKeys(output)
        /\ Len(BlockOf(output, "experience").body) = Len(experiencesOf(dataOf).v)
        /\ \A i \in 1..Len(experiencesOf(dataOf).v) :
              ShowsExperience(BlockOf(output, "experience").body[i],
                              experiencesOf(dataOf).v[i])

C21_Witness ==
    /\ pc = "rendered"
    /\ experiencesOf(dataOf) = Arr(<<expEmptyRole, expAllTitles, expJobTitleOnly>>)
    /\ output.layout = "executive"
    /\ BlockOf(output, "experience").body[1].title = tDev
    /\ BlockOf(output, "experience").body[2].title = tLead
    /\ BlockOf(output, "experience").body[3].title = tJob

(***************************************************************************)
(* C22  Description bullets: for every experience description the rendered *)
(* bullet items are, in order, exactly the non-empty lines of the          *)
(* description split on newline, each with one leading bullet character or *)
(* hyphen (and the whitespace after it) removed; no rendered bullet item   *)
(* has empty text and no content line is lost.                             *)
(***************************************************************************)
NonEmptyLines(text) == SelectSeq(SplitLines(text), LAMBDA l : Len(l) > 0)

\* the line without its marker and without the blanks that follow the marker
WithoutMarker(line) ==
    IF Head(line) \notin {"bullet", "-"} THEN line
    ELSE LET rest == SubSeq(line, 2, Len(line))
             blanks == {n \in 0..Len(rest) :
                           \A j \in 1..n : rest[j] \in Whitespace}
             n == CHOOSE k \in blanks : \A m \in blanks : m <= k
         IN SubSeq(rest, n + 1, Len(rest))

BulletsDue(text) ==
    [j \in 1..Len(NonEmptyLines(text)) |-> WithoutMarker(NonEmptyLines(text)[j])]

C22_DescriptionBullets ==
    (pc = "rendered" /\ "experience" \in BlockKeys(output)) =>
        \A i \in 1..Len(experiencesOf(dataOf).v) :
            LET desc == Get(experiencesOf(dataOf).v[i], "description")
                shown == BlockOf(output, "experience").body[i].lines
            IN (IsStr(desc) /\ Truthy(desc)) =>
                   /\ shown = BulletsDue(desc.v)
                   /\ \A j \in 1..Len(shown) : shown[j] # <<>>

(***************************************************************************)
(* C23  Interests rendering: in every layout, a non-empty interests list   *)
(* is shown as chips, one per member, whose text is the member itself if   *)
(* it is a string, else its name, else its interest field; with an empty   *)
(* list and a non-empty hobbies text the hobbies string is shown as a      *)
(* paragraph.  A member {interest: x} is displayed as x in all five        *)
(* layouts.                                                                *)
(***************************************************************************)
InterestTextDue(member) ==
    IF IsStr(member) THEN member.v
    ELSE IF IsObj(member)
    THEN FirstNonEmpty(<<Get(member, "name"), Get(member, "interest")>>)
    ELSE <<>>

\* the chip texts of the members that have a text, in order
ChipsDue(members) ==
    LET due == SelectSeq(members, LAMBDA m : InterestTextDue(m) # <<>>)
    IN [i \in 1..Len(due) |-> InterestTextDue(due[i])]

C23_InterestsRendering ==
    pc = "rendered" =>
        /\ (IsArr(interestsOf(dataOf)) /\ HasItems(interestsOf(dataOf))) =>
              /\ "interests" \in BlockKeys(output)
              /\ BlockOf(output, "interests").body.form = "chips"
              /\ BlockOf(output, "interests").body.items
                   = ChipsDue(interestsOf(dataOf).v)
        /\ (~HasItems(interestsOf(dataOf)) /\ NonEmptyText(hobbiesOf(dataOf))) =>
              /\ "interests" \in BlockKeys(output)
              /\ BlockOf(output, "interests").body.form = "paragraph"
              /\ BlockOf(output, "interests").body.text = hobbiesOf(dataOf).v

(***************************************************************************)
(* C24  Section heading style is orthogonal to layout: the heading drawn   *)
(* for a label is a function of the accent style (line, badge or dot), the *)
(* label and the primary colour alone, the same in every layout that draws *)
(* it through the section-title component; an absent or unrecognised       *)
(* accent style draws the line heading.  (The icon the clean layout puts   *)
(* beside a heading belongs to that layout, not to the style.)             *)
(***************************************************************************)
StyleRequested ==
    IF IsObj(themeProp) THEN Get(themeProp, "accentStyle") ELSE Undef

PrimaryRequested ==
    IF IsObj(themeProp) /\ IsStr(Get(themeProp, "primaryColor"))
    THEN Get(themeProp, "primaryColor").v ELSE colDefault

HeadingDue(label) ==
    IF StyleRequested = Str(styBadge)
    THEN [variant |-> "badge", label |-> label, color |-> PrimaryRequested,
          icon |-> "", rule |-> <<>>]
    ELSE IF StyleRequested = Str(styDot)
    THEN [variant |-> "dot", label |-> label, color |-> PrimaryRequested,
          icon |-> "", rule |-> rgba(PrimaryRequested, alpha03)]
    ELSE [variant |-> "line", label |-> label, color |-> colDefault,
          icon |-> "", rule |-> <<>>]

C24_WitnessUnrecognised ==
    /\ pc = "rendered"
    /\ output.layout = "minimal"
    /\ StyleRequested = Str(styUnknown)
    /\ "certifications" \in BlockKeys(output)
    /\ BlockOf(output, "certifications").title.variant = "line"

(***************************************************************************)
(* C25  Certifications rendering: in every layout each certification is    *)
(* rendered with its name, its issuer when present, and its date           *)
(* (issueDate, else date); a certification with a non-empty date never     *)
(* renders without that date.                                              *)
(***************************************************************************)
CertDateDue(c) == FirstNonEmpty(<<Get(c, "issueDate"), Get(c, "date")>>)

ShowsCertification(entry, c) ==
    /\ entry.name = Txt(Get(c, "name"))
    /\ entry.issuer = FirstNonEmpty(<<Get(c, "issuer")>>)
    /\ entry.date = CertDateDue(c)
    /\ CertDateDue(c) # <<>> => entry.showsDate

C25_CertificationsRendering ==
    (pc = "rendered" /\ HasItems(certsOf(dataOf))) =>
        /\ "certifications" \in BlockKeys(output)
        /\ Len(BlockOf(output, "certifications").body) = Len(certsOf(dataOf).v)
        /\ \A i \in 1..Len(certsOf(dataOf).v) :
              ShowsCertification(BlockOf(output, "certifications").body[i],
                                 certsOf(dataOf).v[i])

(***************************************************************************)
(* C26  Photo size resolution: the side of the photo in pixels is the      *)
(* stored photoSize itself whenever it is a number, else 56, 76 or 100 for *)
(* the keywords small, medium and large, else 76 for any unrecognised or   *)
(* absent value; the photo is round unless photoShape is "square".         *)
(***************************************************************************)
StoredPhotoSize == NestedField("photoSize")

PhotoSideDue ==
    IF StoredPhotoSize.t = "number" THEN StoredPhotoSize
    ELSE IF StoredPhotoSize = Str(kwSmall) THEN Num(56)
    ELSE IF StoredPhotoSize = Str(kwMedium) THEN Num(76)
    ELSE IF StoredPhotoSize = Str(kwLarge) THEN Num(100)
    ELSE Num(76)

PhotoRadiusDue ==
    IF NestedField("photoShape") = Str(kwSquare) THEN rad6px ELSE rad50

C26_PhotoSizeResolution ==
    (pc = "rendered" /\ output.header.photo # <<>>) =>
        /\ output.header.photo[1].size = PhotoSideDue
        /\ output.header.photo[1].radius = PhotoRadiusDue

(***************************************************************************)
(* C27  Editor auto-save never runs on load and never sends placeholder    *)
(* data: for every interleaving of the load response, the 500 ms           *)
(* initial-load timer and the 1400 ms debounce timers, no update request   *)
(* is issued as a consequence of loading alone (that is, while the user    *)
(* has edited nothing), and every update request sent carries the loaded   *)
(* or user-edited document and title, never the DEFAULT_CV placeholder nor *)
(* the placeholder title 'My CV' that were in state before the load        *)
(* completed.                                                              *)
(***************************************************************************)
PlaceholderPayload == buildPayload(DEFAULT_CV, txtMyCV, txtMyCV)

WithoutTitle(payload) == SelectSeq(payload.v, LAMBDA e : e.k # "title")

CarriesPlaceholder(payload) ==
    \/ WithoutTitle(payload) = WithoutTitle(PlaceholderPayload)
    \/ /\ Get(payload, "title") = Str(txtMyCV)
       /\ LoadedTitle(serverCv) # txtMyCV

C27_AutoSaveNeverOnLoad ==
    pc = "editor" =>
        /\ edits = 0 => sent = <<>>
        /\ \A i \in 1..Len(sent) : ~CarriesPlaceholder(sent[i])

(***************************************************************************)
(* C28  Language detection agrees with what is rendered: two documents     *)
(* that resolve to the same displayed title, summary and experience list   *)
(* get the same label set.  Detection depends on no text the renderer does *)
(* not display (a top-level experience alias) and ignores no text it does  *)
(* display (a title taken from the top-level title field).                 *)
(***************************************************************************)
\* what the render resolves for the title, the summary and the experiences
Displayed(d) == <<Txt(titleOf(d)), Txt(summaryOf(d)), experiencesOf(d)>>

SameDisplay(d, other) ==
    IF IsObj(other) /\ ~detectGermanThrows(other)
    THEN Displayed(other) = Displayed(d) ELSE FALSE

C28_DetectionAgreesWithRendering ==
    pc = "detected" =>
        \A other \in DetectDocs :
            SameDisplay(data, other) => detectGerman(other) = isGerman

\* C29: on the customize page, after any sequence of analyse,
\* apply-suggestion, enhance, apply-AI-changes and discard actions on a
\* loaded CV, each Discard leaves the preview equal to the CV as last
\* persisted on the server (suggestions applied before the enhancement
\* included), with no pending enhanced CV.
C29_DiscardRestoresPersisted ==
    [][(HandleDiscardEnhancement /\ cv # Null)
          => /\ customizeCvData' = buildPreviewData(persisted')
             /\ enhancedCV' = Null]_vars

\* C30: in the CV editor, after loading any CV and after any sequence of
\* updateExp, addExp and removeExp operations, every experience in editor
\* state has role equal to position (a missing member reads as the empty
\* text the form shows for it), so the preview's title is the form's.
TextOf(x) == IF IsStr(x) THEN x.v ELSE <<>>

EditorExperiences ==
    IF IsObj(cvData.doc) /\ IsArr(Get(cvData.doc, "experiences"))
    THEN Get(cvData.doc, "experiences").v ELSE <<>>

C30_RoleEqualsPosition ==
    \A i \in 1..Len(EditorExperiences) :
        IsObj(EditorExperiences[i]) =>
            TextOf(Get(EditorExperiences[i], "role"))
                = TextOf(Get(EditorExperiences[i], "position"))

====
